---------------------------- MODULE Spec2Model ----------------------------
(***************************************************************************)
(* araki: provisioning of pixi environments (get / clone / init) over a    *)
(* model of the filesystem, with the rollback each command performs when   *)
(* a stage fails; the LockSpec operations called one by one on two         *)
(* directories; and the device-flow login of the GitHub backend.           *)
(***************************************************************************)
EXTENDS Integers, Sequences, FiniteSets, TLC

VARIABLES
    cmd,        \* the subcommand of this invocation: "get", "clone" or "init"
    arg,        \* the NAME argument, a sequence of characters
    target,     \* clone: the directory cloned into; init: the directory initialised
    initName,   \* init: the optional environment name (NoName when absent)
    pc,         \* position of the run inside execute()
    remote,     \* the RemoteRepo produced by parse_repo_arg
    did_clone,  \* get.rs: whether this run cloned the catalog entry
    env_path,   \* init.rs: InitError.env_path of the pending error (NoDir when None)
    fs,         \* the filesystem: directories, directory entries -> inode, inode -> content
    fs0,        \* the filesystem when the process started
    status,     \* process exit status (Running until the process exits)
    trace,      \* the operations performed so far, in order
    call,       \* the last call of a LockSpec operation: arguments, result, filesystem before
    token_file, \* ~/.araki/araki-token: whether it exists and its text
    token_file0,\* the token file when the process started
    interval,   \* the poll interval of the device-code response, in seconds
    netlog,     \* login: the requests sent, responses received and sleeps, in order
    outcome,    \* login: what login() returned ("" while it has not)
    backend,    \* the GitHubBackend: its client, the last operation called, the requests sent
    cred,       \* git_clone: tried_agent and the credential callbacks answered so far
    shim,       \* strip_araki_shim_path: its arguments and its result
    tree,       \* copy_directory: the directory tree, its arguments and its result
    urls        \* the URLs rendered from the parsed repository argument

apiVars == <<call>>
authVars == <<token_file, token_file0, interval, netlog, outcome>>
auxVars == <<backend, cred, shim, tree, urls>>

vars == <<cmd, arg, target, initName, pc, remote, did_clone, env_path, fs, fs0, status, trace,
          apiVars, authVars, auxVars>>

-----------------------------------------------------------------------------
(* Names and paths *)

NoName == <<>>
\* the exit status: Running until the process exits, then <<code>>
Running == <<>>

Lock == "pixi.lock"
Toml == "pixi.toml"
Tracked == {Lock, Toml}

\* how many untracked file names a directory or a repository may hold
MaxOthers == 1
Others == {"other" \o ToString(i) : i \in 1..MaxOthers}
Files == Tracked \cup Others

Cwd == <<"cwd", NoName>>
Dest == <<"dest", NoName>>
NoDir == <<"none", NoName>>
EnvDir(name) == <<"envs", name>>

-----------------------------------------------------------------------------
(* Filesystem primitives (std::fs) *)

Entries(f, d) == {p \in DOMAIN f.links : p[1] = d}
FileNames(f, d) == {p[2] : p \in Entries(f, d)}
Exists(f, p) == p \in DOMAIN f.links
IsDir(f, d) == d \in f.dirs

Restrict(fn, S) == [x \in S |-> fn[x]]

\* content of a file as far as the program reads it: whether it parses as TOML,
\* the lockspec_name of its [araki] table (NoName: no such table), and whether
\* the tables it was created with are still in it, and whether its bytes are
\* as authored or as toml::Table::to_string wrote them
PlainToml == [valid |-> TRUE, araki |-> NoName, rest |-> TRUE, fmt |-> "authored"]

\* a directory with the named files, each a fresh inode
Populate(f, d, names, origin) ==
    LET new == {<<d, n>> : n \in names}
    IN [dirs |-> f.dirs \cup {d},
        links |-> [p \in DOMAIN f.links \cup new |->
                      IF p \in new THEN <<origin, p[1], p[2]>> ELSE f.links[p]],
        data |-> [i \in DOMAIN f.data \cup {<<origin, p[1], p[2]>> : p \in new} |->
                      IF i \in DOMAIN f.data THEN f.data[i]
                      ELSE PlainToml]]

Ev(kind, d, file, res) == <<kind, d, file, res>>

hard_link_copies(f, from, to, fault) ==
    IF fault THEN [ok |-> FALSE, fs |-> f, err |-> "Other"]
    ELSE IF ~Exists(f, from) \/ ~IsDir(f, to[1]) THEN [ok |-> FALSE, fs |-> f, err |-> "NotFound"]
    ELSE IF Exists(f, to) THEN [ok |-> FALSE, fs |-> f, err |-> "AlreadyExists"]
    ELSE [ok |-> TRUE,
          fs |-> [f EXCEPT !.links = (to :> <<"copy", to[1], to[2]>>) @@ f.links,
                           !.data = (<<"copy", to[1], to[2]>> :> f.data[f.links[from]]) @@ f.data],
          err |-> "ok"]

hard_link_overwrites(f, from, to, fault) ==
    IF fault THEN [ok |-> FALSE, fs |-> f, err |-> "Other"]
    ELSE IF ~Exists(f, from) \/ ~IsDir(f, to[1]) THEN [ok |-> FALSE, fs |-> f, err |-> "NotFound"]
    ELSE [ok |-> TRUE, fs |-> [f EXCEPT !.links = (to :> f.links[from]) @@ f.links], err |-> "ok"]

\* std::fs::hard_link(from, to)
hard_link(f, from, to, fault) ==
    IF fault THEN [ok |-> FALSE, fs |-> f, err |-> "Other"]
    ELSE IF ~Exists(f, from) \/ ~IsDir(f, to[1]) THEN [ok |-> FALSE, fs |-> f, err |-> "NotFound"]
    ELSE IF Exists(f, to) THEN [ok |-> FALSE, fs |-> f, err |-> "AlreadyExists"]
    ELSE [ok |-> TRUE, fs |-> [f EXCEPT !.links = (to :> f.links[from]) @@ f.links], err |-> "ok"]

\* std::fs::remove_file(p)
remove_file(f, p, fault) ==
    IF fault THEN [ok |-> FALSE, fs |-> f, err |-> "Other"]
    ELSE IF ~Exists(f, p) THEN [ok |-> FALSE, fs |-> f, err |-> "NotFound"]
    ELSE [ok |-> TRUE, fs |-> [f EXCEPT !.links = Restrict(f.links, DOMAIN f.links \ {p})], err |-> "ok"]

\* std::fs::remove_dir_all(d); a failing call may already have deleted some entries
NoFault == [fail |-> FALSE, gone |-> {}]
DirFaults == {NoFault} \cup {[fail |-> TRUE, gone |-> g] : g \in SUBSET Files}

remove_dir_all(f, d, fault) ==
    IF fault.fail
    THEN [ok |-> FALSE,
          fs |-> [f EXCEPT !.links = Restrict(f.links, DOMAIN f.links \ {<<d, n>> : n \in fault.gone})],
          err |-> "Other"]
    ELSE IF ~IsDir(f, d) THEN [ok |-> FALSE, fs |-> f, err |-> "NotFound"]
    ELSE [ok |-> TRUE,
          fs |-> [f EXCEPT !.dirs = f.dirs \ {d},
                           !.links = Restrict(f.links, DOMAIN f.links \ Entries(f, d))],
          err |-> "ok"]

-----------------------------------------------------------------------------
(* LockSpec (common.rs) *)

specfile(d) == <<d, Toml>>
lockfile(d) == <<d, Lock>>

files_exist_either(f, d) == Exists(f, lockfile(d)) \/ Exists(f, specfile(d))

files_exist(f, d) == Exists(f, lockfile(d)) /\ Exists(f, specfile(d))

from_directory(f, d) == files_exist(f, d)

from_env_name_dir_only(f, name) == IsDir(f, EnvDir(name))

from_env_name(f, name) == files_exist(f, EnvDir(name))

\* LockSpec::from_path, used by clone.rs: the check of from_directory
from_path(f, d) == files_exist(f, d)

LinkFaults == [l1 : BOOLEAN, l2 : BOOLEAN, rm : BOOLEAN]

hardlink_to_keeps_first(f, from, to, ft) ==
    LET r1 == hard_link(f, lockfile(from), lockfile(to), ft.l1)
        r2 == hard_link(r1.fs, specfile(from), specfile(to), ft.l2)
    IN IF ~r1.ok
       THEN [ok |-> FALSE, fs |-> f, err |-> r1.err,
             log |-> <<Ev("link", to, Lock, r1.err)>>]
       ELSE IF ~r2.ok
       THEN [ok |-> FALSE, fs |-> r1.fs, err |-> r2.err,
             log |-> <<Ev("link", to, Lock, "ok"), Ev("link", to, Toml, r2.err)>>]
       ELSE [ok |-> TRUE, fs |-> r2.fs, err |-> "ok",
             log |-> <<Ev("link", to, Lock, "ok"), Ev("link", to, Toml, "ok")>>]

hardlink_to_wipes_target(f, from, to, ft) ==
    LET r1 == hard_link(f, lockfile(from), lockfile(to), ft.l1)
        r2 == hard_link(r1.fs, specfile(from), specfile(to), ft.l2)
        r3 == remove_file(r1.fs, lockfile(to), ft.rm)
        r4 == remove_file(r3.fs, specfile(to), FALSE)
    IN IF ~r1.ok
       THEN [ok |-> FALSE, fs |-> f, err |-> r1.err,
             log |-> <<Ev("link", to, Lock, r1.err)>>]
       ELSE IF ~r2.ok
       THEN [ok |-> FALSE, fs |-> r4.fs, err |-> r2.err,
             log |-> <<Ev("link", to, Lock, "ok"), Ev("link", to, Toml, r2.err),
                       Ev("unlink", to, Lock, r3.err)>>]
       ELSE [ok |-> TRUE, fs |-> r2.fs, err |-> "ok",
             log |-> <<Ev("link", to, Lock, "ok"), Ev("link", to, Toml, "ok")>>]

\* NOT THE CODE: a pixi.lock found in the destination is replaced by the link
hardlink_to_replaces_lock(f, from, to, ft) ==
    LET f0 == IF Exists(f, lockfile(to)) THEN remove_file(f, lockfile(to), FALSE).fs ELSE f
        r1 == hard_link(f0, lockfile(from), lockfile(to), ft.l1)
        r2 == hard_link(r1.fs, specfile(from), specfile(to), ft.l2)
        r3 == remove_file(r1.fs, lockfile(to), ft.rm)
    IN IF ~r1.ok
       THEN [ok |-> FALSE, fs |-> f0, err |-> r1.err,
             log |-> <<Ev("link", to, Lock, r1.err)>>]
       ELSE IF ~r2.ok
       THEN [ok |-> FALSE, fs |-> r3.fs, err |-> r2.err,
             log |-> <<Ev("link", to, Lock, "ok"), Ev("link", to, Toml, r2.err),
                       Ev("unlink", to, Lock, r3.err)>>]
       ELSE [ok |-> TRUE, fs |-> r2.fs, err |-> "ok",
             log |-> <<Ev("link", to, Lock, "ok"), Ev("link", to, Toml, "ok")>>]

\* pixi.lock is linked first; when linking pixi.toml fails the first link is removed
hardlink_to(f, from, to, ft) ==
    LET r1 == hard_link(f, lockfile(from), lockfile(to), ft.l1)
        r2 == hard_link(r1.fs, specfile(from), specfile(to), ft.l2)
        r3 == remove_file(r1.fs, lockfile(to), ft.rm)
    IN IF ~r1.ok
       THEN [ok |-> FALSE, fs |-> f, err |-> r1.err,
             log |-> <<Ev("link", to, Lock, r1.err)>>]
       ELSE IF ~r2.ok
       THEN [ok |-> FALSE, fs |-> r3.fs, err |-> r2.err,
             log |-> <<Ev("link", to, Lock, "ok"), Ev("link", to, Toml, r2.err),
                       Ev("unlink", to, Lock, r3.err)>>]
       ELSE [ok |-> TRUE, fs |-> r2.fs, err |-> "ok",
             log |-> <<Ev("link", to, Lock, "ok"), Ev("link", to, Toml, "ok")>>]

remove_lockspec_and_parent_dir_strict(f, d, fault) ==
    LET r == remove_dir_all(f, d, fault)
    IN [ok |-> r.ok, fs |-> r.fs, log |-> <<Ev("rmdir", d, "", r.err)>>]

\* a directory that is already gone counts as removed
remove_lockspec_and_parent_dir(f, d, fault) ==
    LET r == remove_dir_all(f, d, fault)
    IN [ok |-> r.ok \/ r.err = "NotFound", fs |-> r.fs,
        log |-> <<Ev("rmdir", d, "", r.err)>>]

FileFaults == [toml : BOOLEAN, lock : BOOLEAN]

remove_files_whole_dir(f, d, ft) ==
    LET r == remove_dir_all(f, d, NoFault)
    IN [ok |-> r.ok, fs |-> r.fs,
        log |-> <<Ev("unlink", d, Toml, r.err), Ev("unlink", d, Lock, r.err)>>]

\* pixi.toml is removed first; an error other than NotFound returns at once
remove_files(f, d, ft) ==
    LET r1 == remove_file(f, specfile(d), ft.toml)
        r2 == remove_file(r1.fs, lockfile(d), ft.lock)
    IN IF ~(r1.ok \/ r1.err = "NotFound")
       THEN [ok |-> FALSE, fs |-> r1.fs, log |-> <<Ev("unlink", d, Toml, r1.err)>>]
       ELSE [ok |-> r2.ok \/ r2.err = "NotFound", fs |-> r2.fs,
             log |-> <<Ev("unlink", d, Toml, r1.err), Ev("unlink", d, Lock, r2.err)>>]

-----------------------------------------------------------------------------
(* parse_repo_arg: the regular expressions of get.rs and clone.rs, matched *)
(* leftmost-first as the regex crate does                                  *)

Letters == {"a", "b", "c", "d", "e", "f", "g", "h", "i", "j", "k", "l", "m",
            "n", "o", "p", "q", "r", "s", "t", "u", "v", "w", "x", "y", "z"}
Digits == {"0", "1", "2", "3", "4", "5", "6", "7", "8", "9"}
\* \w of get.rs
WordChars == Letters \cup Digits \cup {"_"}
\* [-a-zA-Z0-9_.] of clone.rs
NameChars == WordChars \cup {"-", "."}
\* {1,100} of clone.rs
MaxNameLen == 100

LitGit == <<"g", "i", "t", "+">>
LitHttp == <<"h", "t", "t", "p">>
LitSep == <<":", "/", "/">>
LitDomain == <<"g", "i", "t", "h", "u", "b", ".", "c", "o", "m">>

HasLit(s, i, lit) ==
    /\ i + Len(lit) - 1 <= Len(s)
    /\ \A k \in 1..Len(lit) : s[i + k - 1] = lit[k]

Slice(s, i, j) == SubSeq(s, i, j - 1)

RECURSIVE RunEnd(_, _, _, _)
\* the index after the longest run of at most `left` characters of C starting at i
RunEnd(s, i, C, left) ==
    IF left = 0 \/ i > Len(s) \/ s[i] \notin C THEN i
    ELSE RunEnd(s, i + 1, C, left - 1)

\* (git\+)?https?:// at i: the index after it, 0 when it does not match
ProtoEnd(s, i, withGit) ==
    LET a == IF withGit THEN i + Len(LitGit) ELSE i
        b == a + Len(LitHttp)
        c == IF HasLit(s, b, <<"s">>) THEN b + 1 ELSE b
    IN IF (withGit => HasLit(s, i, LitGit)) /\ HasLit(s, a, LitHttp) /\ HasLit(s, c, LitSep)
       THEN c + Len(LitSep) ELSE 0

NoMatch == [ok |-> FALSE, org |-> NoName, repo |-> NoName, domain |-> NoName, protocol |-> NoName]

\* ((?<org>C+)/)?(?<repo>C+) at j, followed by $ when anchored
TailAt(s, j, C, cap, anchored) ==
    LET k == RunEnd(s, j, C, cap)
        m == RunEnd(s, k + 1, C, cap)
        atEnd(x) == anchored => x = Len(s) + 1
    IN IF k > j /\ HasLit(s, k, <<"/">>) /\ m > k + 1 /\ atEnd(m)
       THEN [ok |-> TRUE, org |-> Slice(s, j, k), repo |-> Slice(s, k + 1, m)]
       ELSE IF k > j /\ atEnd(k)
       THEN [ok |-> TRUE, org |-> NoName, repo |-> Slice(s, j, k)]
       ELSE [ok |-> FALSE, org |-> NoName, repo |-> NoName]

\* the prefix group ((?<protocol>...)?(?<domain>github\.com)/)? tried with and
\* without its parts, greedy alternatives first
PrefixAt(s, i, p, C, cap, anchored) ==
    LET d == IF p = 0 THEN i ELSE p
        j == d + Len(LitDomain) + 1
        t == TailAt(s, j, C, cap, anchored)
    IN IF HasLit(s, d, LitDomain) /\ HasLit(s, d + Len(LitDomain), <<"/">>) /\ t.ok
       THEN [ok |-> TRUE, org |-> t.org, repo |-> t.repo, domain |-> LitDomain,
             protocol |-> IF p = 0 THEN NoName ELSE Slice(s, i, p)]
       ELSE NoMatch

MatchAt(s, i, C, cap, anchored) ==
    LET g == ProtoEnd(s, i, TRUE)
        h == ProtoEnd(s, i, FALSE)
        m1 == IF g # 0 THEN PrefixAt(s, i, g, C, cap, anchored) ELSE NoMatch
        m2 == IF h # 0 THEN PrefixAt(s, i, h, C, cap, anchored) ELSE NoMatch
        m3 == PrefixAt(s, i, 0, C, cap, anchored)
        t == TailAt(s, i, C, cap, anchored)
    IN IF m1.ok THEN m1
       ELSE IF m2.ok THEN m2
       ELSE IF m3.ok THEN m3
       ELSE IF t.ok THEN [ok |-> TRUE, org |-> t.org, repo |-> t.repo,
                          domain |-> NoName, protocol |-> NoName]
       ELSE NoMatch

RECURSIVE Captures(_, _, _, _, _)
\* Regex::captures: the match at the leftmost position that has one
Captures(s, i, C, cap, anchored) ==
    IF i > Len(s) THEN NoMatch
    ELSE IF MatchAt(s, i, C, cap, anchored).ok THEN MatchAt(s, i, C, cap, anchored)
    ELSE Captures(s, i + 1, C, cap, anchored)

\* get.rs: \w+ names, no anchor, the length of a run is not capped
get_parse_repo_arg(s) == Captures(s, 1, WordChars, Len(s), FALSE)

\* clone.rs: RemoteRepo::new(org, repo, domain, protocol) is called with the
\* captures in the order (org, repo, protocol, domain)
clone_parse_repo_arg(s) ==
    LET c == Captures(s, 1, NameChars, MaxNameLen, TRUE)
    IN [ok |-> c.ok, org |-> c.org, repo |-> c.repo, domain |-> c.protocol, protocol |-> c.domain]

-----------------------------------------------------------------------------
(* RemoteRepo *)

\* "openteams-ai" (get.rs) and "nos-environments" (clone.rs)
GetDefaultOrg == <<"o", "p", "e", "n", "t", "e", "a", "m", "s", "-", "a", "i">>
CloneDefaultOrg == <<"n", "o", "s", "-", "e", "n", "v", "i", "r", "o", "n", "m", "e", "n", "t", "s">>
LitHttps == <<"h", "t", "t", "p", "s", ":", "/", "/">>
LitGitAt == <<"g", "i", "t", "@">>
LitDotGit == <<".", "g", "i", "t">>

get_org(r, dflt) == IF r.org = NoName THEN dflt ELSE r.org
get_repo(r) == r.repo
get_protocol(r) == IF r.protocol = NoName THEN LitHttps ELSE r.protocol
get_domain(r) == IF r.domain = NoName THEN LitDomain ELSE r.domain

as_url(r, dflt) == get_protocol(r) \o get_domain(r) \o <<"/">> \o get_org(r, dflt) \o <<"/">> \o get_repo(r)

as_ssh_url(r, dflt) ==
    LitGitAt \o get_domain(r) \o <<":">> \o get_org(r, dflt) \o <<"/">> \o get_repo(r) \o LitDotGit

-----------------------------------------------------------------------------
(* External collaborators *)

\* the only host of the model's network is github.com
Reachable(url) == HasLit(url, 1, LitGitAt \o LitDomain \o <<":">>)

\* what the remote answers to a clone: whether it can be fetched and the files it holds
CloneOutcomes == [ok : BOOLEAN, content : SUBSET Files]

\* common::git_clone: the repository appears at d; cloning into a directory
\* that holds entries fails, and a failed clone leaves nothing behind
git_clone(f, url, d, o) ==
    IF o.ok /\ Reachable(url) /\ Entries(f, d) = {}
    THEN [ok |-> TRUE, fs |-> Populate(f, d, o.content, "clone"),
          log |-> <<Ev("clone", d, "", "ok")>>]
    ELSE [ok |-> FALSE, fs |-> f, log |-> <<Ev("clone", d, "", "err")>>]

\* Command::new("pixi").status(): Err, or Ok with an exit code
InstallOutcomes == {"ok", "nonzero", "spawn_err"}

\* get_local_envs: the names of the entries of the catalog directory
get_local_envs(f) == {d[2] : d \in {x \in f.dirs : x[1] = "envs"}}

-----------------------------------------------------------------------------
(* Inputs *)

ArgBare == <<"e", "1">>
ArgOrg == <<"o", "/", "e", "1">>
ArgUrl == <<"h", "t", "t", "p", "s", ":", "/", "/", "g", "i", "t", "h", "u", "b",
            ".", "c", "o", "m", "/", "o", "/", "e", "1">>
ArgDash == <<"e", "1", "-", "x">>
ArgSlash == <<"e", "1", "/">>
ArgPlus == <<"+">>
ArgInputs == {ArgBare, ArgOrg, ArgUrl, ArgDash, ArgSlash, ArgPlus}

Env1 == <<"e", "1">>
\* an environment of the catalog no run of the model names
EnvF == <<"f">>
\* basename of the current directory
CwdBase == <<"w">>

EmptyFs == [dirs |-> {}, links |-> <<>>, data |-> <<>>]

\* a directory is absent (0) or holds a subset of Files
DirShapes == {[present |-> FALSE, names |-> {}]} \cup [present : {TRUE}, names : SUBSET Files]

WithDir(f, d, shape) == IF shape.present THEN Populate(f, d, shape.names, "init") ELSE f

TomlKinds == {PlainToml, [PlainToml EXCEPT !.araki = EnvF], [PlainToml EXCEPT !.valid = FALSE]}

WithToml(f, d, kind) ==
    IF Exists(f, specfile(d)) THEN [f EXCEPT !.data[f.links[specfile(d)]] = kind] ELSE f

BaseFs == Populate(EmptyFs, EnvDir(EnvF), Files, "init")

NoRemote == NoMatch

\* no LockSpec operation has been called
NoCall == [n |-> 0, op |-> "", dir |-> NoDir, to |-> NoDir, name |-> NoName, ok |-> FALSE,
           err |-> "", log |-> <<>>, pre |-> EmptyFs,
           prev |-> [op |-> "", dir |-> NoDir, to |-> NoDir, name |-> NoName, ok |-> FALSE,
                     log |-> <<>>]]

\* the token file does not exist
NoTokenFile == [present |-> FALSE, text |-> <<>>]

\* no HTTP response
NoResponse == [transport |-> FALSE, status |-> 0, body |-> "none"]

\* no GitHubBackend has been constructed
NoBackend == [client |-> "none", op |-> "", n |-> 0, sent |-> 0, logins |-> 0,
              resp |-> NoResponse]

\* no clone is running
NoCred == [tried_agent |-> FALSE, agent |-> 0, log |-> <<>>]

\* strip_araki_shim_path has not been called
NoShim == [path |-> <<>>, shim_path |-> <<>>, done |-> FALSE, out |-> <<>>]

\* copy_directory has not been called
EmptyTree == [dirs |-> {}, files |-> {}]
NoTree == [before |-> EmptyTree, after |-> EmptyTree, from |-> <<>>, to |-> <<>>,
           fault |-> "none", done |-> FALSE, ok |-> FALSE, err |-> ""]

\* no URL has been rendered
NoUrls == [web |-> <<>>, ssh |-> <<>>]

\* the commands that use none of them
AuxIdle == backend = NoBackend /\ cred = NoCred /\ shim = NoShim /\ tree = NoTree /\ urls = NoUrls

Init ==
    /\ cmd \in {"get", "clone", "init"}
    /\ arg \in (IF cmd = "init" THEN {NoName} ELSE ArgInputs)
    /\ target \in (IF cmd = "clone" THEN {Cwd, Dest} ELSE {Cwd})
    /\ initName \in (IF cmd = "init" THEN {NoName, Env1, EnvF} ELSE {NoName})
    /\ \E cw \in SUBSET Files, cat \in DirShapes, dst \in DirShapes, k \in TomlKinds :
          /\ cmd # "clone" => ~dst.present
          /\ cmd = "clone" => ~cat.present
          /\ cmd = "clone" /\ target = Cwd => ~dst.present
          /\ cmd # "init" => k = PlainToml
          /\ fs = WithToml(WithDir(WithDir(Populate(BaseFs, Cwd, cw, "init"),
                                           EnvDir(Env1), cat), Dest, dst), Cwd, k)
    /\ fs0 = fs
    /\ pc = "start"
    /\ remote = NoRemote
    /\ did_clone = FALSE
    /\ env_path = NoDir
    /\ status = Running
    /\ trace = <<>>
    /\ call = NoCall
    /\ token_file = NoTokenFile
    /\ token_file0 = token_file
    /\ interval = 0
    /\ netlog = <<>>
    /\ outcome = ""
    /\ AuxIdle

Exit(code) == pc' = "exit" /\ status' = <<code>>

Log(evs) == trace' = trace \o evs

-----------------------------------------------------------------------------
(* get.rs: execute *)

\* lines 104-115: the run aborts only when fs::exists returns Err
GetCheckTarget ==
    /\ cmd = "get" /\ pc = "start"
    /\ \E e \in BOOLEAN :
          /\ Log(<<Ev("exists", Cwd, "", IF e THEN "err" ELSE "ok")>>)
          /\ IF e THEN Exit(1) ELSE pc' = "resolve" /\ UNCHANGED status
    /\ UNCHANGED <<cmd, arg, target, initName, remote, did_clone, env_path, fs, fs0>>
    /\ UNCHANGED <<apiVars, authVars, auxVars>>

\* lines 116-131: parse_repo_arg, get_default_araki_envs_dir, get_local_envs
GetResolve ==
    /\ cmd = "get" /\ pc = "resolve"
    /\ LET r == get_parse_repo_arg(arg)
       IN IF ~r.ok
          THEN /\ Log(<<Ev("parse", NoDir, "", "err")>>)
               /\ Exit(1)
               /\ UNCHANGED remote
          ELSE \E listed \in BOOLEAN :
               /\ Log(<<Ev("parse", NoDir, "", "ok"),
                        Ev("list", NoDir, "", IF listed THEN "ok" ELSE "err")>>)
               /\ remote' = r
               /\ IF listed THEN pc' = "fetch" /\ UNCHANGED status ELSE Exit(1)
    /\ UNCHANGED <<cmd, arg, target, initName, did_clone, env_path, fs, fs0>>
    /\ UNCHANGED <<apiVars, authVars, auxVars>>

\* lines 132-142
GetFetch ==
    /\ cmd = "get" /\ pc = "fetch"
    /\ IF remote.repo \notin get_local_envs(fs)
       THEN \E o \in CloneOutcomes :
               LET r == git_clone(fs, as_ssh_url(remote, GetDefaultOrg), EnvDir(remote.repo), o)
               IN /\ Log(r.log)
                  /\ fs' = r.fs
                  /\ IF r.ok THEN did_clone' = TRUE /\ pc' = "validate" /\ UNCHANGED status
                     ELSE Exit(1) /\ UNCHANGED did_clone
       ELSE /\ pc' = "validate"
            /\ UNCHANGED <<fs, did_clone, status, trace>>
    /\ UNCHANGED <<cmd, arg, target, initName, remote, env_path, fs0>>
    /\ UNCHANGED <<apiVars, authVars, auxVars>>

\* process::exit(1) ends every failure handler
NoRollback(f) == [fs |-> f, log |-> <<>>, code |-> 1]

validate_rollback_always(f, dc, d, df) ==
    LET r == remove_dir_all(f, d, df)
    IN [fs |-> r.fs, log |-> <<Ev("rmdir", d, "", r.err)>>, code |-> 1]

\* lines 152-161
validate_rollback(f, dc, d, df) ==
    IF dc
    THEN LET r == remove_dir_all(f, d, df)
         IN [fs |-> r.fs, log |-> <<Ev("rmdir", d, "", r.err)>>, code |-> 1]
    ELSE NoRollback(f)

\* lines 144-163
GetValidate ==
    /\ cmd = "get" /\ pc = "validate"
    /\ IF from_env_name(fs, remote.repo)
       THEN /\ Log(<<Ev("validate", EnvDir(remote.repo), "", "ok")>>)
            /\ pc' = "link"
            /\ UNCHANGED <<fs, status>>
       ELSE \E df \in DirFaults :
               LET r == validate_rollback(fs, did_clone, EnvDir(remote.repo), df)
               IN /\ Log(<<Ev("validate", EnvDir(remote.repo), "", "err")>> \o r.log)
                  /\ fs' = r.fs
                  /\ Exit(r.code)
    /\ UNCHANGED <<cmd, arg, target, initName, remote, did_clone, env_path, fs0>>
    /\ UNCHANGED <<apiVars, authVars, auxVars>>

link_rollback_always(f, dc, d, df) ==
    LET r == remove_lockspec_and_parent_dir(f, d, df)
    IN [fs |-> r.fs, log |-> r.log, code |-> 1]

\* lines 169-178
link_rollback(f, dc, d, df) ==
    IF dc
    THEN LET r == remove_lockspec_and_parent_dir(f, d, df)
         IN [fs |-> r.fs, log |-> r.log, code |-> 1]
    ELSE NoRollback(f)

\* lines 165-180
GetLink ==
    /\ cmd = "get" /\ pc = "link"
    /\ \E ft \in LinkFaults :
          LET l == hardlink_to(fs, EnvDir(remote.repo), Cwd, ft)
          IN IF l.ok
             THEN /\ Log(l.log)
                  /\ fs' = l.fs
                  /\ pc' = "install"
                  /\ UNCHANGED status
             ELSE \E df \in DirFaults :
                     LET r == link_rollback(l.fs, did_clone, EnvDir(remote.repo), df)
                     IN /\ Log(l.log \o r.log)
                        /\ fs' = r.fs
                        /\ Exit(r.code)
    /\ UNCHANGED <<cmd, arg, target, initName, remote, did_clone, env_path, fs0>>
    /\ UNCHANGED <<apiVars, authVars, auxVars>>

\* lines 202-211 of get.rs, lines 170-179 of clone.rs
cleanup_lockspec(f, d, ff) ==
    IF from_directory(f, d)
    THEN LET r == remove_files(f, d, ff)
         IN [fs |-> r.fs, log |-> r.log, code |-> 1]
    ELSE [fs |-> f, log |-> <<Ev("unlink", d, "", "NoLockspec")>>, code |-> 1]

install_rollback_panics(f, dc, d, df, ff) ==
    LET r1 == link_rollback(f, dc, d, df)
        r2 == cleanup_lockspec(r1.fs, Cwd, ff)
        refused == \E i \in DOMAIN (r1.log \o r2.log) : (r1.log \o r2.log)[i][4] = "Other"
    IN [fs |-> r2.fs, log |-> r1.log \o r2.log, code |-> IF refused THEN 101 ELSE 1]

install_rollback_keeps_links(f, dc, d, df, ff) ==
    LET r1 == link_rollback(f, dc, d, df)
    IN [fs |-> r1.fs, log |-> r1.log, code |-> 1]

\* lines 192-211: the catalog entry first, then the two files of the working directory
install_rollback(f, dc, d, df, ff) ==
    LET r1 == link_rollback(f, dc, d, df)
        r2 == cleanup_lockspec(r1.fs, Cwd, ff)
    IN [fs |-> r2.fs, log |-> r1.log \o r2.log, code |-> 1]

\* lines 182-213
GetInstall ==
    /\ cmd = "get" /\ pc = "install"
    /\ \E o \in InstallOutcomes :
          IF o = "ok"
          THEN /\ Log(<<Ev("install", Cwd, "", o)>>)
               /\ Exit(0)
               /\ UNCHANGED fs
          ELSE \E df \in DirFaults, ff \in FileFaults :
                  LET r == install_rollback(fs, did_clone, EnvDir(remote.repo), df, ff)
                  IN /\ Log(<<Ev("install", Cwd, "", o)>> \o r.log)
                     /\ fs' = r.fs
                     /\ Exit(r.code)
    /\ UNCHANGED <<cmd, arg, target, initName, remote, did_clone, env_path, fs0>>
    /\ UNCHANGED <<apiVars, authVars, auxVars>>

-----------------------------------------------------------------------------
(* clone.rs: execute *)

\* lines 134-138
CloneCheckTarget ==
    /\ cmd = "clone" /\ pc = "start"
    /\ IF from_path(fs, target)
       THEN /\ Log(<<Ev("exists", target, "", "lockspec")>>)
            /\ Exit(1)
       ELSE /\ Log(<<Ev("exists", target, "", "ok")>>)
            /\ pc' = "resolve"
            /\ UNCHANGED status
    /\ UNCHANGED <<cmd, arg, target, initName, remote, did_clone, env_path, fs, fs0>>
    /\ UNCHANGED <<apiVars, authVars, auxVars>>

\* lines 140-143
CloneResolve ==
    /\ cmd = "clone" /\ pc = "resolve"
    /\ LET r == clone_parse_repo_arg(arg)
       IN IF r.ok
          THEN /\ Log(<<Ev("parse", NoDir, "", "ok")>>)
               /\ remote' = r
               /\ pc' = "fetch"
               /\ UNCHANGED status
          ELSE /\ Log(<<Ev("parse", NoDir, "", "err")>>)
               /\ Exit(1)
               /\ UNCHANGED remote
    /\ UNCHANGED <<cmd, arg, target, initName, did_clone, env_path, fs, fs0>>
    /\ UNCHANGED <<apiVars, authVars, auxVars>>

\* lines 145-148
CloneFetch ==
    /\ cmd = "clone" /\ pc = "fetch"
    /\ \E o \in CloneOutcomes :
          LET r == git_clone(fs, as_ssh_url(remote, CloneDefaultOrg), target, o)
          IN /\ Log(r.log)
             /\ fs' = r.fs
             /\ IF r.ok THEN pc' = "validate" /\ UNCHANGED status ELSE Exit(1)
    /\ UNCHANGED <<cmd, arg, target, initName, remote, did_clone, env_path, fs0>>
    /\ UNCHANGED <<apiVars, authVars, auxVars>>

\* lines 150-158: the run exits without removing what it cloned
CloneValidate ==
    /\ cmd = "clone" /\ pc = "validate"
    /\ IF from_path(fs, target)
       THEN /\ Log(<<Ev("validate", target, "", "ok")>>)
            /\ pc' = "install"
            /\ UNCHANGED status
       ELSE /\ Log(<<Ev("validate", target, "", "err")>>)
            /\ Exit(1)
    /\ UNCHANGED <<cmd, arg, target, initName, remote, did_clone, env_path, fs, fs0>>
    /\ UNCHANGED <<apiVars, authVars, auxVars>>

\* lines 160-181
CloneInstall ==
    /\ cmd = "clone" /\ pc = "install"
    /\ \E o \in InstallOutcomes :
          IF o = "ok"
          THEN /\ Log(<<Ev("install", target, "", o)>>)
               /\ Exit(0)
               /\ UNCHANGED fs
          ELSE \E ff \in FileFaults :
                  LET r == cleanup_lockspec(fs, target, ff)
                  IN /\ Log(<<Ev("install", target, "", o)>> \o r.log)
                     /\ fs' = r.fs
                     /\ Exit(r.code)
    /\ UNCHANGED <<cmd, arg, target, initName, remote, did_clone, env_path, fs0>>
    /\ UNCHANGED <<apiVars, authVars, auxVars>>

-----------------------------------------------------------------------------
(* init.rs: execute, make_new_araki_env, use_existing_araki_env *)

\* std::fs::create_dir(d)
create_dir(f, d, fault) ==
    IF fault THEN [ok |-> FALSE, fs |-> f, err |-> "Other"]
    ELSE IF IsDir(f, d) THEN [ok |-> FALSE, fs |-> f, err |-> "AlreadyExists"]
    ELSE [ok |-> TRUE, fs |-> [f EXCEPT !.dirs = f.dirs \cup {d}], err |-> "ok"]

\* lines 107-112: the name given, else the basename of the current directory
env_name == IF initName # NoName THEN initName ELSE CwdBase

MetaFaults == {"none", "read", "open", "write"}

ensure_araki_metadata_restamps(f, d, name, fault) ==
    LET ino == f.links[specfile(d)]
        old == f.data[ino]
    IN IF ~Exists(f, specfile(d)) \/ fault = "read"
       THEN [ok |-> FALSE, fs |-> f, log |-> <<Ev("stamp", d, Toml, "read")>>]
       ELSE IF ~old.valid
       THEN [ok |-> FALSE, fs |-> f, log |-> <<Ev("stamp", d, Toml, "parse")>>]
       ELSE [ok |-> TRUE,
             fs |-> [f EXCEPT !.data[ino] = [old EXCEPT !.araki = name, !.fmt = "serialized"]],
             log |-> <<Ev("stamp", d, Toml, "ok")>>]

\* common.rs 245-276: the [araki] table is written only when the file has none;
\* the file is truncated when it is opened for writing
ensure_araki_metadata(f, d, name, fault) ==
    LET ino == f.links[specfile(d)]
        old == f.data[ino]
    IN IF ~Exists(f, specfile(d)) \/ fault = "read"
       THEN [ok |-> FALSE, fs |-> f, log |-> <<Ev("stamp", d, Toml, "read")>>]
       ELSE IF ~old.valid
       THEN [ok |-> FALSE, fs |-> f, log |-> <<Ev("stamp", d, Toml, "parse")>>]
       ELSE IF old.araki # NoName
       THEN [ok |-> TRUE, fs |-> f, log |-> <<Ev("stamp", d, Toml, "kept")>>]
       ELSE IF fault = "open"
       THEN [ok |-> FALSE, fs |-> f, log |-> <<Ev("stamp", d, Toml, "open")>>]
       ELSE IF fault = "write"
       THEN [ok |-> FALSE,
             fs |-> [f EXCEPT !.data[ino] = [valid |-> TRUE, araki |-> NoName, rest |-> FALSE,
                                             fmt |-> "serialized"]],
             log |-> <<Ev("stamp", d, Toml, "write")>>]
       ELSE [ok |-> TRUE,
             fs |-> [f EXCEPT !.data[ino] = [old EXCEPT !.araki = name, !.fmt = "serialized"]],
             log |-> <<Ev("stamp", d, Toml, "ok")>>]

\* execute 88-92 with make_new_araki_env 105-128 or use_existing_araki_env 164-190
InitStart ==
    /\ cmd = "init" /\ pc = "start"
    /\ IF from_directory(fs, target)
       THEN IF from_env_name(fs, env_name)
            THEN /\ Log(<<Ev("mkdir", EnvDir(env_name), "", "NameTaken")>>)
                 /\ pc' = "failed"
                 /\ UNCHANGED <<fs, env_path>>
            ELSE \E fault \in BOOLEAN :
                    LET r == create_dir(fs, EnvDir(env_name), fault)
                    IN /\ Log(<<Ev("mkdir", EnvDir(env_name), "", r.err)>>)
                       /\ fs' = r.fs
                       /\ pc' = IF r.ok THEN "link" ELSE "failed"
                       /\ UNCHANGED env_path
       ELSE IF initName = NoName \/ ~from_env_name(fs, initName)
            THEN /\ Log(<<Ev("use", EnvDir(initName), "", "err")>>)
                 /\ pc' = "failed"
                 /\ UNCHANGED <<fs, env_path>>
            ELSE \E ft \in LinkFaults :
                    LET l == hardlink_to(fs, EnvDir(initName), target, ft)
                    IN /\ Log(<<Ev("use", EnvDir(initName), "", "ok")>> \o l.log)
                       /\ fs' = l.fs
                       /\ pc' = IF l.ok THEN "finish" ELSE "failed"
                       /\ UNCHANGED env_path
    /\ UNCHANGED <<cmd, arg, target, initName, remote, did_clone, fs0, status>>
    /\ UNCHANGED <<apiVars, authVars, auxVars>>

\* make_new_araki_env 130-141
InitLink ==
    /\ cmd = "init" /\ pc = "link"
    /\ IF ~from_directory(fs, target)
       THEN /\ Log(<<Ev("validate", target, "", "err")>>)
            /\ env_path' = EnvDir(env_name)
            /\ pc' = "failed"
            /\ UNCHANGED fs
       ELSE \E ft \in LinkFaults :
               LET l == hardlink_to(fs, target, EnvDir(env_name), ft)
               IN /\ Log(<<Ev("validate", target, "", "ok")>> \o l.log)
                  /\ fs' = l.fs
                  /\ IF l.ok THEN pc' = "stamp" /\ UNCHANGED env_path
                     ELSE pc' = "failed" /\ env_path' = EnvDir(env_name)
    /\ UNCHANGED <<cmd, arg, target, initName, remote, did_clone, fs0, status>>
    /\ UNCHANGED <<apiVars, authVars, auxVars>>

\* make_new_araki_env 142-144
InitStamp ==
    /\ cmd = "init" /\ pc = "stamp"
    /\ \E fault \in MetaFaults :
          LET r == ensure_araki_metadata(fs, target, env_name, fault)
          IN /\ Log(r.log)
             /\ fs' = r.fs
             /\ IF r.ok THEN pc' = "install" /\ UNCHANGED env_path
                ELSE pc' = "failed" /\ env_path' = EnvDir(env_name)
    /\ UNCHANGED <<cmd, arg, target, initName, remote, did_clone, fs0, status>>
    /\ UNCHANGED <<apiVars, authVars, auxVars>>

\* make_new_araki_env 146-157: only an Err of output() is an error; the exit
\* code of the installer is not looked at
InitInstall ==
    /\ cmd = "init" /\ pc = "install"
    /\ \E o \in InstallOutcomes :
          /\ Log(<<Ev("install", target, "", o)>>)
          /\ IF o = "spawn_err"
             THEN pc' = "failed" /\ env_path' = EnvDir(env_name)
             ELSE pc' = "finish" /\ UNCHANGED env_path
    /\ UNCHANGED <<cmd, arg, target, initName, remote, did_clone, fs, fs0, status>>
    /\ UNCHANGED <<apiVars, authVars, auxVars>>

\* NOT THE CODE: the handler removes nothing
init_rollback_skipped(f, ep, df) == NoRollback(f)

\* execute 93-101
init_rollback(f, ep, df) ==
    IF ep # NoDir
    THEN LET r == remove_dir_all(f, ep, df)
         IN [fs |-> r.fs, log |-> <<Ev("rmdir", ep, "", r.err)>>, code |-> 1]
    ELSE NoRollback(f)

\* execute 93-102: the error handler
InitFail ==
    /\ cmd = "init" /\ pc = "failed"
    /\ \E df \in DirFaults :
          LET r == init_rollback(fs, env_path, df)
          IN /\ Log(r.log)
             /\ fs' = r.fs
             /\ Exit(r.code)
    /\ UNCHANGED <<cmd, arg, target, initName, remote, did_clone, env_path, fs0>>
    /\ UNCHANGED <<apiVars, authVars, auxVars>>

\* execute returns: exit status 0
InitFinish ==
    /\ cmd = "init" /\ pc = "finish"
    /\ Exit(0)
    /\ UNCHANGED <<cmd, arg, target, initName, remote, did_clone, env_path, fs, fs0, trace>>
    /\ UNCHANGED <<apiVars, authVars, auxVars>>

Next ==
    \/ GetCheckTarget
    \/ GetResolve
    \/ GetFetch
    \/ GetValidate
    \/ GetLink
    \/ GetInstall
    \/ CloneCheckTarget
    \/ CloneResolve
    \/ CloneFetch
    \/ CloneValidate
    \/ CloneInstall
    \/ InitStart
    \/ InitLink
    \/ InitStamp
    \/ InitInstall
    \/ InitFail
    \/ InitFinish

Spec == Init /\ [][Next]_vars

-----------------------------------------------------------------------------
(* LockSpec operations (common.rs) called one after another on two         *)
(* directories, from every filesystem they can find                        *)

\* number of calls of a run
MaxCalls == 2

ApiDirs == {Cwd, Dest}

\* the two directories start absent, empty, or with some of pixi.toml,
\* pixi.lock and one file the operations do not name
ApiShapes == {s \in DirShapes : s.names \subseteq Tracked \cup {"other1"}}

\* the call just made: what was called, on what, with what result, and the
\* filesystem it found; prev is the call made before it
Called(op, d, to, name, ok, err, log) ==
    call' = [n |-> call.n + 1, op |-> op, dir |-> d, to |-> to, name |-> name,
             ok |-> ok, err |-> err, log |-> log, pre |-> fs,
             prev |-> [op |-> call.op, dir |-> call.dir, to |-> call.to, name |-> call.name,
                       ok |-> call.ok, log |-> call.log]]

InitApi ==
    /\ cmd = "api"
    /\ arg = NoName
    /\ target = Cwd
    /\ initName = NoName
    /\ \E s \in ApiShapes, t \in ApiShapes, k \in TomlKinds :
          fs = WithToml(WithDir(WithDir(EmptyFs, Cwd, s), Dest, t), Cwd, k)
    /\ fs0 = fs
    /\ pc = "api"
    /\ remote = NoRemote
    /\ did_clone = FALSE
    /\ env_path = NoDir
    /\ status = Running
    /\ trace = <<>>
    /\ call = NoCall
    /\ token_file = NoTokenFile
    /\ token_file0 = token_file
    /\ interval = 0
    /\ netlog = <<>>
    /\ outcome = ""
    /\ AuxIdle

ApiFrame == UNCHANGED <<cmd, arg, target, initName, pc, remote, did_clone, env_path, fs0,
                        status, trace, authVars, auxVars>>

\* LockSpec::from_directory(d)
ApiFromDirectory ==
    /\ cmd = "api" /\ call.n < MaxCalls
    /\ \E d \in ApiDirs :
          LET ok == from_directory(fs, d)
          IN Called("from_directory", d, NoDir, NoName, ok, IF ok THEN "ok" ELSE "Err", <<>>)
    /\ UNCHANGED fs
    /\ ApiFrame

\* LockSpec { path: from }.hardlink_to(to)
ApiHardlinkTo ==
    /\ cmd = "api" /\ call.n < MaxCalls
    /\ \E from \in ApiDirs, to \in ApiDirs, ft \in LinkFaults :
          LET r == hardlink_to(fs, from, to, ft)
          IN /\ from # to
             /\ fs' = r.fs
             /\ Called("hardlink_to", from, to, NoName, r.ok, r.err, r.log)
    /\ ApiFrame

\* LockSpec { path: d }.remove_files()
ApiRemoveFiles ==
    /\ cmd = "api" /\ call.n < MaxCalls
    /\ \E d \in ApiDirs, ft \in FileFaults :
          LET r == remove_files(fs, d, ft)
          IN /\ fs' = r.fs
             /\ Called("remove_files", d, NoDir, NoName, r.ok, IF r.ok THEN "ok" ELSE "Err", r.log)
    /\ ApiFrame

\* LockSpec { path: d }.remove_lockspec_and_parent_dir()
ApiRemoveLockspecAndParentDir ==
    /\ cmd = "api" /\ call.n < MaxCalls
    /\ \E d \in ApiDirs, fault \in DirFaults :
          LET r == remove_lockspec_and_parent_dir(fs, d, fault)
          IN /\ fault.gone \subseteq FileNames(fs, d)
             /\ fs' = r.fs
             /\ Called("remove_lockspec_and_parent_dir", d, NoDir, NoName, r.ok,
                       IF r.ok THEN "ok" ELSE "Err", r.log)
    /\ ApiFrame

\* LockSpec { path: d }.ensure_araki_metadata(name)
ApiEnsureArakiMetadata ==
    /\ cmd = "api" /\ call.n < MaxCalls
    /\ \E d \in ApiDirs, name \in {Env1, EnvF}, fault \in MetaFaults :
          LET r == ensure_araki_metadata(fs, d, name, fault)
          IN /\ fs' = r.fs
             /\ Called("ensure_araki_metadata", d, NoDir, name, r.ok,
                       IF r.ok THEN "ok" ELSE "Err", r.log)
    /\ ApiFrame

NextApi ==
    \/ ApiFromDirectory
    \/ ApiHardlinkTo
    \/ ApiRemoveFiles
    \/ ApiRemoveLockspecAndParentDir
    \/ ApiEnsureArakiMetadata

SpecApi == InitApi /\ [][NextApi]_vars

-----------------------------------------------------------------------------
(* `araki auth login`: the device flow of the GitHub backend (backends.rs,  *)
(* auth.rs)                                                                *)

\* number of token requests of a run
MaxPolls == 3

\* seconds added to the interval after slow_down
SlowDownExtra == 5

\* the interval field of the device-code response, in seconds
Intervals == {1, 5}

Whitespace == {" ", "\n", "\t", "\r"}

RECURSIVE trim_start(_)
trim_start(s) == IF s # <<>> /\ Head(s) \in Whitespace THEN trim_start(Tail(s)) ELSE s

RECURSIVE trim_end(_)
trim_end(s) ==
    IF s # <<>> /\ s[Len(s)] \in Whitespace THEN trim_end(SubSeq(s, 1, Len(s) - 1)) ELSE s

\* str::trim
trim(s) == trim_end(trim_start(s))

\* HeaderValue::from_str accepts the text: no line break or other control character
header_value_ok(s) == \A i \in DOMAIN s : s[i] \notin {"\n", "\r"}

\* the access tokens a token response can carry
Tokens == {<<"t">>, <<"n", "e", "w">>}

TokenFile(text) == [present |-> TRUE, text |-> text]

\* the token file when the process starts: none, one written by an earlier
\* login (a shorter or a longer token), or one whose text is not one line
TokenFiles == {NoTokenFile, TokenFile(<<"o", "\n">>), TokenFile(<<"o", "l", "d", "e", "r", "\n">>),
               TokenFile(<<"o", "\n", "x", "\n">>)}

\* a field a JSON response does not have
Absent == "(absent)"
\* a JSON null
JsonNull == "(null)"

ErrorValues == {"authorization_pending", "slow_down", "expired_token", "access_denied",
                "unsupported_grant_type", JsonNull}

\* the access_token field: absent, a JSON string, or a value that is no string
NoToken == [kind |-> "absent", text |-> <<>>]
TokenFields == {NoToken, [kind |-> "number", text |-> <<>>]}
                  \cup {[kind |-> "string", text |-> t] : t \in Tokens}

\* what request_token returns: an error of the transport, or the JSON body
Responses == {[transport |-> TRUE, error |-> Absent, token |-> NoToken]}
                \cup [transport : {FALSE}, error : ErrorValues \cup {Absent}, token : TokenFields]

\* Display of serde_json::Value: a string is printed as JSON, between quotes
JsonDisplay(e) == IF e = JsonNull THEN "null" ELSE "\"" \o e \o "\""

\* the messages of backends.rs 270-284; "login" is between backquotes there
ExpiredMsg == "The GitHub token araki uses has expired. Please run login again."
DeniedMsg == "Login cancelled by user."
FailedPrefix == "Error getting araki github app token: "
UnexpectedMsg == "Unexpected response whil getting a GitHub user access token"
NotAStringMsg == "invalid type, expected a string"
IoMsg == "io error"
DeviceCodeMsg == "device code request failed"

Net(op, val, secs, tok) == [op |-> op, val |-> val, secs |-> secs, tok |-> tok]

\* the token requests sent so far
Polls == Cardinality({i \in DOMAIN netlog : netlog[i].op = "request_token"})

RetryAlsoExpired(error) == error \in {"authorization_pending", "slow_down", "expired_token"}

RetryAlsoDenied(error) == error \in {"authorization_pending", "slow_down", "access_denied"}

\* poll_for_token 263-268: the responses after which the loop sleeps and goes on
Retry(error) == error \in {"authorization_pending", "slow_down"}

poll_sleep_flat(error, iv) == iv

\* the argument of time::sleep
poll_sleep(error, iv) == IF error = "slow_down" THEN iv + SlowDownExtra ELSE iv

next_interval_accumulates(error, iv) == IF error = "slow_down" THEN iv + SlowDownExtra ELSE iv

\* the interval of the next iteration: poll_for_token never assigns it
next_interval(error, iv) == iv

request_token_failure_ignored(resp) == FALSE

\* poll_for_token 253-259: request_token returned Err
request_token_failed(resp) == resp.transport

\* poll_for_token 269-279: the error returned for an error value that ends the loop
poll_error(error) ==
    IF error = "expired_token" THEN ExpiredMsg
    ELSE IF error = "access_denied" THEN DeniedMsg
    ELSE FailedPrefix \o JsonDisplay(error)

\* poll_for_token 282-287
read_access_token(field) ==
    IF field.kind = "absent" THEN [ok |-> FALSE, err |-> UnexpectedMsg]
    ELSE IF field.kind # "string" THEN [ok |-> FALSE, err |-> NotAStringMsg]
    ELSE [ok |-> TRUE, err |-> ""]

TokenFaults == {"none", "dir", "open", "write"}

write_token_no_truncate(file, text, fault) ==
    LET new == text \o <<"\n">>
    IN IF fault \in {"dir", "open"} THEN [ok |-> FALSE, file |-> file]
       ELSE IF fault = "write" THEN [ok |-> FALSE, file |-> TokenFile(file.text)]
       ELSE [ok |-> TRUE,
             file |-> TokenFile(new \o SubSeq(file.text, Len(new) + 1, Len(file.text)))]

\* poll_for_token 288-293: the file is created or truncated when it is opened,
\* then the token and a line feed are written
write_token(file, text, fault) ==
    IF fault \in {"dir", "open"} THEN [ok |-> FALSE, file |-> file]
    ELSE IF fault = "write" THEN [ok |-> FALSE, file |-> TokenFile(<<>>)]
    ELSE [ok |-> TRUE, file |-> TokenFile(text \o <<"\n">>)]

InitLogin ==
    /\ cmd = "login"
    /\ arg = NoName
    /\ target = Cwd
    /\ initName = NoName
    /\ fs = EmptyFs
    /\ fs0 = fs
    /\ pc = "start"
    /\ remote = NoRemote
    /\ did_clone = FALSE
    /\ env_path = NoDir
    /\ status = Running
    /\ trace = <<>>
    /\ call = NoCall
    /\ token_file \in TokenFiles
    /\ token_file0 = token_file
    /\ interval = 0
    /\ netlog = <<>>
    /\ outcome = ""
    /\ AuxIdle

LoginFrame == UNCHANGED <<cmd, arg, target, initName, remote, did_clone, env_path, fs, fs0,
                          trace, apiVars, token_file0, auxVars>>

\* auth.rs 24-27 with GitHubBackend::new 171-186: the cached token, when there
\* is one, must make a header value
LoginStart ==
    /\ cmd = "login" /\ pc = "start"
    /\ IF token_file.present /\ ~header_value_ok(trim(token_file.text))
       THEN Exit(1)
       ELSE pc' = "code" /\ UNCHANGED status
    /\ UNCHANGED <<token_file, interval, netlog, outcome>>
    /\ LoginFrame

\* request_device_code 208-214: how the request can fail: send() fails, the
\* status is not a success (error_for_status), the body does not decode
DeviceCodeFailures == {"transport", "status", "decode"}

\* NOT THE CODE: the error of request_device_code is dropped and login goes on
LoginRequestDeviceCodeUnchecked ==
    /\ cmd = "login" /\ pc = "code"
    /\ \/ \E iv \in Intervals :
             /\ interval' = iv
             /\ netlog' = <<Net("device_code", "ok", iv, <<>>), Net("show", "user_code", 0, <<>>)>>
       \/ \E f \in DeviceCodeFailures, iv \in Intervals :
             /\ interval' = iv
             /\ netlog' = <<Net("device_code", f, 0, <<>>), Net("show", "user_code", 0, <<>>)>>
    /\ pc' = "poll"
    /\ UNCHANGED <<token_file, status, outcome>>
    /\ LoginFrame

\* login 120-134 with request_device_code 195-216
LoginRequestDeviceCode ==
    /\ cmd = "login" /\ pc = "code"
    /\ \/ \E iv \in Intervals :
             /\ interval' = iv
             /\ netlog' = <<Net("device_code", "ok", iv, <<>>), Net("show", "user_code", 0, <<>>)>>
             /\ pc' = "poll"
             /\ UNCHANGED outcome
       \/ \E f \in DeviceCodeFailures :
             /\ netlog' = <<Net("device_code", f, 0, <<>>)>>
             /\ outcome' = DeviceCodeMsg
             /\ pc' = "returned"
             /\ UNCHANGED interval
    /\ UNCHANGED <<token_file, status>>
    /\ LoginFrame

\* poll_for_token 251-298: one iteration of the loop, on the response resp
LoginPollOn(resp, fault) ==
    /\ cmd = "login" /\ pc = "poll"
    /\    LET t == read_access_token(resp.token)
              w == write_token(token_file, resp.token.text, fault)
              \* what came back: no response, the error value, or no error field
              reply == IF resp.transport THEN "transport" ELSE resp.error
              req(val) == Net("request_token", val, 0, resp.token.text)
          IN IF request_token_failed(resp)
             THEN /\ netlog' = Append(netlog, req(reply))
                  /\ Exit(1)
                  /\ UNCHANGED <<token_file, interval, outcome>>
             ELSE IF Retry(resp.error)
             THEN /\ netlog' = netlog \o <<req(resp.error),
                                           Net("sleep", "", poll_sleep(resp.error, interval), <<>>)>>
                  /\ interval' = next_interval(resp.error, interval)
                  /\ UNCHANGED <<pc, status, token_file, outcome>>
             ELSE IF resp.error # Absent
             THEN /\ netlog' = Append(netlog, req(resp.error))
                  /\ outcome' = poll_error(resp.error)
                  /\ pc' = "returned"
                  /\ UNCHANGED <<status, token_file, interval>>
             ELSE IF ~t.ok
             THEN /\ netlog' = Append(netlog, req(reply))
                  /\ outcome' = t.err
                  /\ pc' = "returned"
                  /\ UNCHANGED <<status, token_file, interval>>
             ELSE /\ netlog' = netlog \o <<req(reply), Net("write", fault, 0, resp.token.text)>>
                  /\ token_file' = w.file
                  /\ outcome' = IF w.ok THEN "Ok" ELSE IoMsg
                  /\ pc' = "returned"
                  /\ UNCHANGED <<status, interval>>
    /\ LoginFrame

\* poll_for_token 251-298: one iteration of the loop
LoginPoll ==
    /\ Polls < MaxPolls
    /\ \E resp \in Responses, fault \in TokenFaults : LoginPollOn(resp, fault)

\* auth.rs 28-33
LoginFinish ==
    /\ cmd = "login" /\ pc = "returned"
    /\ IF outcome = "Ok" THEN Exit(0) ELSE Exit(1)
    /\ UNCHANGED <<token_file, interval, netlog, outcome>>
    /\ LoginFrame

NextLogin ==
    \/ LoginStart
    \/ LoginRequestDeviceCode
    \/ LoginPoll
    \/ LoginFinish

SpecLogin == InitLogin /\ [][NextLogin]_vars

\* The same login where the answers of the server are told apart: it may
\* answer authorization_pending or slow_down up to MaxPolls times, and any
\* other answer (or none) at any time. The process runs on whenever it can
\* (the loop has no other suspension point than the request and the sleep),
\* and the server is assumed to give an answer of the second kind in the end.
PendingResponses == {r \in Responses : ~r.transport /\ r.error \in {"authorization_pending", "slow_down"}}

LoginPollPending ==
    /\ Polls < MaxPolls
    /\ \E resp \in PendingResponses, fault \in TokenFaults : LoginPollOn(resp, fault)

LoginPollAnswered ==
    /\ Polls <= MaxPolls
    /\ \E resp \in Responses \ PendingResponses, fault \in TokenFaults : LoginPollOn(resp, fault)

NextLoginLive ==
    \/ LoginStart
    \/ LoginRequestDeviceCode
    \/ LoginPollPending
    \/ LoginPollAnswered
    \/ LoginFinish

SpecLoginLive ==
    /\ InitLogin
    /\ [][NextLoginLive]_vars
    /\ WF_vars(LoginStart)
    /\ WF_vars(LoginRequestDeviceCode)
    /\ WF_vars(LoginPollAnswered)
    /\ WF_vars(LoginFinish)

-----------------------------------------------------------------------------
(* GitHubBackend (backends.rs): construction and the authenticated         *)
(* operations                                                              *)

\* number of operations called on one backend
MaxOps == 2

\* backends.rs 71 and 78; "araki auth login" is between backquotes there
AuthMsg == "Please authenticate with araki auth login before continuing."
HeaderMsg == "failed to parse header value"
TransportMsg == "error sending request"
DecodeMsg == "error decoding response body"

\* the bodies the API answers with: the repository object of GitHub (numbers,
\* booleans and objects among its values), an object with only a name string,
\* the error object (message, documentation_url and status, all strings), and
\* text that is not JSON
Bodies == {"repository", "name_only", "message", "not_json"}

has_name(body) == body \in {"repository", "name_only"}

\* reqwest json::<HashMap<String, String>>: the body is a JSON object all of
\* whose values are strings
decodes_as_string_map(body) == body \in {"name_only", "message"}

\* the answers to GET /repos/{org}/{name} and POST /orgs/{org}/repos
HttpResponses ==
    {[transport |-> TRUE, status |-> 0, body |-> "none"]}
        \cup [transport : {FALSE}, status : {200, 201}, body : {"repository", "name_only"}]
        \cup [transport : {FALSE}, status : {401, 403, 404, 422}, body : {"message"}]
        \cup [transport : {FALSE}, status : {502}, body : {"not_json"}]

\* StatusCode::is_success
is_success(code) == code >= 200 /\ code < 300

BackendOps == {"get", "post", "is_existing_lockspec", "create_repository"}

InitBackend ==
    /\ cmd = "backend"
    /\ arg = NoName
    /\ target = Cwd
    /\ initName = NoName
    /\ fs = EmptyFs
    /\ fs0 = fs
    /\ pc = "start"
    /\ remote = NoRemote
    /\ did_clone = FALSE
    /\ env_path = NoDir
    /\ status = Running
    /\ trace = <<>>
    /\ call = NoCall
    /\ token_file \in TokenFiles \cup {TokenFile(<<>>)}
    /\ token_file0 = token_file
    /\ interval = 0
    /\ netlog = <<>>
    /\ outcome = ""
    /\ AuxIdle

BackendRest == UNCHANGED <<cmd, arg, target, initName, remote, did_clone, env_path, fs, fs0,
                           status, trace, apiVars, token_file0, interval, netlog,
                           cred, shim, tree, urls>>

BackendFrame == BackendRest /\ UNCHANGED token_file

\* GitHubBackend::new 171-186 with get_cached_token 190-192: a client is built
\* exactly when the token file can be read
BackendNew ==
    /\ cmd = "backend" /\ pc = "start"
    /\ \E readable \in BOOLEAN :
          IF token_file.present /\ readable
          THEN IF header_value_ok(trim(token_file.text))
               THEN /\ backend' = [backend EXCEPT !.client = "some"]
                    /\ pc' = "ready"
                    /\ UNCHANGED outcome
               ELSE /\ outcome' = HeaderMsg
                    /\ pc' = "failed"
                    /\ UNCHANGED backend
          ELSE /\ pc' = "ready"
               /\ UNCHANGED <<backend, outcome>>
    /\ BackendFrame

has_client_anonymous(b) == TRUE

\* self.client.as_ref().ok_or(..)
has_client(b) == b.client = "some"

Operated(op, resp, sent) ==
    backend' = [backend EXCEPT !.op = op, !.n = backend.n + 1, !.resp = resp,
                               !.sent = backend.sent + (IF sent THEN 1 ELSE 0)]

\* Backend::get 67-73 and Backend::post 74-80: a request builder, nothing is sent
BackendBuilder ==
    /\ cmd = "backend" /\ pc = "ready" /\ backend.n < MaxOps
    /\ \E op \in {"get", "post"} :
          /\ Operated(op, NoResponse, FALSE)
          /\ outcome' = IF has_client(backend) THEN "Ok(builder)" ELSE AuthMsg
    /\ UNCHANGED pc
    /\ BackendFrame

\* is_existing_lockspec 81-90
BackendIsExistingLockspec ==
    /\ cmd = "backend" /\ pc = "ready" /\ backend.n < MaxOps
    /\ IF ~has_client(backend)
       THEN /\ Operated("is_existing_lockspec", NoResponse, FALSE)
            /\ outcome' = AuthMsg
       ELSE \E resp \in HttpResponses :
               /\ Operated("is_existing_lockspec", resp, TRUE)
               /\ outcome' = IF resp.transport THEN TransportMsg
                             ELSE IF ~decodes_as_string_map(resp.body) THEN DecodeMsg
                             ELSE IF has_name(resp.body) THEN "Ok(true)"
                             ELSE "Ok(false)"
    /\ UNCHANGED pc
    /\ BackendFrame

\* create_repository 91-107
BackendCreateRepository ==
    /\ cmd = "backend" /\ pc = "ready" /\ backend.n < MaxOps
    /\ IF ~has_client(backend)
       THEN /\ Operated("create_repository", NoResponse, FALSE)
            /\ outcome' = AuthMsg
       ELSE \E resp \in HttpResponses :
               /\ Operated("create_repository", resp, TRUE)
               /\ outcome' = IF resp.transport THEN TransportMsg
                             ELSE IF is_success(resp.status) THEN "Ok"
                             ELSE resp.body
    /\ UNCHANGED pc
    /\ BackendFrame

\* NOT THE CODE: login installs a client in the instance
client_after_login_refreshed(b, ok) == IF ok THEN "some" ELSE b.client

\* login 120-135 takes &self: the client of the instance is not assigned
client_after_login(b, ok) == b.client

\* Backend::login 120-135 on the instance: the device flow either fails before
\* the token is written, or writes the token file (poll_for_token 288-293)
BackendLogin ==
    /\ cmd = "backend" /\ pc = "ready" /\ backend.n < MaxOps
    /\ \/ /\ outcome' = DeviceCodeMsg
          /\ backend' = [backend EXCEPT !.op = "login", !.n = @ + 1, !.resp = NoResponse,
                                         !.client = client_after_login(backend, FALSE)]
          /\ UNCHANGED token_file
       \/ \E t \in Tokens, fault \in TokenFaults :
             LET w == write_token(token_file, t, fault)
             IN /\ token_file' = w.file
                /\ outcome' = IF w.ok THEN "Ok" ELSE IoMsg
                /\ backend' = [backend EXCEPT !.op = "login", !.n = @ + 1, !.resp = NoResponse,
                                               !.logins = @ + (IF w.ok THEN 1 ELSE 0),
                                               !.client = client_after_login(backend, w.ok)]
    /\ UNCHANGED pc
    /\ BackendRest

NextBackend ==
    \/ BackendLogin
    \/ BackendNew
    \/ BackendBuilder
    \/ BackendIsExistingLockspec
    \/ BackendCreateRepository

SpecBackend == InitBackend /\ [][NextBackend]_vars

-----------------------------------------------------------------------------
(* git_clone (common.rs 75-115): the credentials callback                  *)

\* number of credential requests of one clone
MaxCallbacks == 3

\* the errors of the callback
NoUsernameMsg == "Unable to get the ssh username from the URL."
AgentTriedMsg == "Unable to authenticate via ssh. Is ssh-agent running, and have you added the ssh key you use for git?"
SshOnlyMsg == "araki only supports ssh for git interactions. Please configure ssh-agent."

credentials_forgets_agent(tried, user, ssh, agent_ok) ==
    IF ~user THEN [tried |-> tried, agent |-> FALSE, result |-> NoUsernameMsg]
    ELSE IF ssh
    THEN [tried |-> tried, agent |-> TRUE,
          result |-> IF agent_ok THEN "Cred" ELSE "agent error"]
    ELSE [tried |-> tried, agent |-> FALSE, result |-> SshOnlyMsg]

\* lines 84-102: the closure given to RemoteCallbacks::credentials; agent says
\* whether Cred::ssh_key_from_agent was called
credentials(tried, user, ssh, agent_ok) ==
    IF ~user THEN [tried |-> tried, agent |-> FALSE, result |-> NoUsernameMsg]
    ELSE IF tried THEN [tried |-> tried, agent |-> FALSE, result |-> AgentTriedMsg]
    ELSE IF ssh
    THEN [tried |-> TRUE, agent |-> TRUE,
          result |-> IF agent_ok THEN "Cred" ELSE "agent error"]
    ELSE [tried |-> tried, agent |-> FALSE, result |-> SshOnlyMsg]

InitClone ==
    /\ cmd = "git_clone"
    /\ arg = NoName
    /\ target = Cwd
    /\ initName = NoName
    /\ fs = EmptyFs
    /\ fs0 = fs
    /\ pc = "clone"
    /\ remote = NoRemote
    /\ did_clone = FALSE
    /\ env_path = NoDir
    /\ status = Running
    /\ trace = <<>>
    /\ call = NoCall
    /\ token_file = NoTokenFile
    /\ token_file0 = token_file
    /\ interval = 0
    /\ netlog = <<>>
    /\ outcome = ""
    /\ AuxIdle

GitCloneFrame == UNCHANGED <<cmd, arg, target, initName, remote, did_clone, env_path, fs, fs0,
                             status, trace, apiVars, token_file, token_file0, interval, netlog,
                             backend, shim, tree, urls>>

\* libgit2 asks for credentials: with or without a username in the URL,
\* allowing ssh keys or not
GitCloneCredentials ==
    /\ cmd = "git_clone" /\ pc = "clone"
    /\ Len(cred.log) < MaxCallbacks
    /\ \E user \in BOOLEAN, ssh \in BOOLEAN, agent_ok \in BOOLEAN :
          LET r == credentials(cred.tried_agent, user, ssh, agent_ok)
          IN cred' = [tried_agent |-> r.tried,
                      agent |-> cred.agent + (IF r.agent THEN 1 ELSE 0),
                      log |-> Append(cred.log, [user |-> user, ssh |-> ssh, agent |-> r.agent,
                                                result |-> r.result])]
    /\ UNCHANGED <<pc, outcome>>
    /\ GitCloneFrame

\* lines 110-114: builder.clone returns
GitCloneReturn ==
    /\ cmd = "git_clone" /\ pc = "clone"
    /\ \E ok \in BOOLEAN :
          /\ ok => (IF cred.log = <<>> THEN TRUE ELSE cred.log[Len(cred.log)].result = "Cred")
          /\ outcome' = IF ok THEN "Ok" ELSE "Failed to clone"
    /\ pc' = "returned"
    /\ UNCHANGED cred
    /\ GitCloneFrame

NextClone ==
    \/ GitCloneCredentials
    \/ GitCloneReturn

SpecClone == InitClone /\ [][NextClone]_vars

-----------------------------------------------------------------------------
(* parse_repo_arg and the URLs of RemoteRepo (get.rs, clone.rs) applied to *)
(* repository arguments                                                    *)

\* the parts repository arguments are put together from: what stands before
\* the host, the host, the organisation and the name
ArgSchemes == {<<>>, LitHttps, <<"h", "t", "t", "p", ":", "/", "/">>, <<"g", "i", "t", "+", "h", "t", "t", "p", "s", ":", "/", "/">>, <<"f", "t", "p", ":", "/", "/">>}
ArgHosts == {<<>>, LitDomain \o <<"/">>, <<"g", "i", "t", "l", "a", "b", ".", "c", "o", "m", "/">>}
ArgOrgs == {<<>>, <<"o", "/">>, <<"a", "-", "b", "/">>}
ArgNames == {<<>>, <<"e", "1">>, <<"e", ".", "1", "-", "x">>, <<"+">>, <<"!", "e", "1">>}

ParseInputs == {p \o h \o o \o n : p \in ArgSchemes, h \in ArgHosts, o \in ArgOrgs, n \in ArgNames}

DefaultOrg == IF cmd = "get" THEN GetDefaultOrg ELSE CloneDefaultOrg

InitParse ==
    /\ cmd \in {"get", "clone"}
    /\ arg \in ParseInputs
    /\ target = Cwd
    /\ initName = NoName
    /\ fs = EmptyFs
    /\ fs0 = fs
    /\ pc = "parse"
    /\ remote = NoRemote
    /\ did_clone = FALSE
    /\ env_path = NoDir
    /\ status = Running
    /\ trace = <<>>
    /\ call = NoCall
    /\ token_file = NoTokenFile
    /\ token_file0 = token_file
    /\ interval = 0
    /\ netlog = <<>>
    /\ outcome = ""
    /\ AuxIdle

ParseFrame == UNCHANGED <<cmd, arg, target, initName, did_clone, env_path, fs, fs0, status, trace,
                          apiVars, authVars, backend, cred, shim, tree>>

\* get.rs 73-97 and clone.rs 93-117
ParseRepoArg ==
    /\ cmd \in {"get", "clone"} /\ pc = "parse"
    /\ remote' = IF cmd = "get" THEN get_parse_repo_arg(arg) ELSE clone_parse_repo_arg(arg)
    /\ pc' = IF remote'.ok THEN "parsed" ELSE "rejected"
    /\ UNCHANGED urls
    /\ ParseFrame

\* as_url and as_ssh_url of the RemoteRepo (get.rs 27-46, clone.rs 48-67)
RenderUrls ==
    /\ cmd \in {"get", "clone"} /\ pc = "parsed"
    /\ urls' = [web |-> as_url(remote, DefaultOrg), ssh |-> as_ssh_url(remote, DefaultOrg)]
    /\ pc' = "rendered"
    /\ UNCHANGED remote
    /\ ParseFrame

NextParse ==
    \/ ParseRepoArg
    \/ RenderUrls

SpecParse == InitParse /\ [][NextParse]_vars

-----------------------------------------------------------------------------
(* strip_araki_shim_path (shim.rs): the PATH handed to a shimmed tool.
   SpecShim applies it to every PATH of at most MaxPath characters. *)

MaxPath == 4

PathChars == {"a", "b", ":"}
PathStrings == UNION {[1..n -> PathChars] : n \in 0..MaxPath}
ShimDirs == {<<"a">>, <<"a", "b">>}

\* str::split(":"): the pieces between the separators; the empty string has
\* one (empty) piece
RECURSIVE split(_)
split(s) ==
    IF \A i \in 1..Len(s) : s[i] # ":"
    THEN <<s>>
    ELSE LET i == CHOOSE k \in 1..Len(s) : s[k] = ":" /\ \A j \in 1..(k - 1) : s[j] # ":"
         IN <<SubSeq(s, 1, i - 1)>> \o split(SubSeq(s, i + 1, Len(s)))

\* [&str]::join(":"): no piece gives the empty string
RECURSIVE join(_)
join(items) ==
    IF items = <<>> THEN <<>>
    ELSE IF Len(items) = 1 THEN items[1]
    ELSE items[1] \o <<":">> \o join(Tail(items))

\* NOT THE CODE: removes the first piece equal to the shim directory only
strip_araki_shim_path_first_only(path, shim_path) ==
    LET items == split(path)
        hits == {i \in 1..Len(items) : items[i] = shim_path}
    IN IF hits = {} THEN path
       ELSE LET h == CHOOSE i \in hits : \A j \in hits : i <= j
            IN join(SubSeq(items, 1, h - 1) \o SubSeq(items, h + 1, Len(items)))

\* shim.rs 21-27
strip_araki_shim_path(path, shim_path) ==
    join(SelectSeq(split(path), LAMBDA item : item # shim_path))

InitShim ==
    /\ cmd = "shim"
    /\ arg = NoName
    /\ target = Cwd
    /\ initName = NoName
    /\ fs = EmptyFs
    /\ fs0 = fs
    /\ pc = "strip"
    /\ remote = NoRemote
    /\ did_clone = FALSE
    /\ env_path = NoDir
    /\ status = Running
    /\ trace = <<>>
    /\ call = NoCall
    /\ token_file = NoTokenFile
    /\ token_file0 = token_file
    /\ interval = 0
    /\ netlog = <<>>
    /\ outcome = ""
    /\ backend = NoBackend /\ cred = NoCred /\ tree = NoTree /\ urls = NoUrls
    /\ \E p \in PathStrings, d \in ShimDirs :
          shim = [path |-> p, shim_path |-> d, done |-> FALSE, out |-> <<>>]

ShimFrame == UNCHANGED <<cmd, arg, target, initName, remote, did_clone, env_path, fs, fs0, status,
                         trace, apiVars, authVars, backend, cred, tree, urls>>

\* shim.rs 45: the call of strip_araki_shim_path on PATH and the bin directory
StripArakiShimPath ==
    /\ cmd = "shim" /\ pc = "strip"
    /\ shim' = [shim EXCEPT !.done = TRUE,
                            !.out = strip_araki_shim_path(shim.path, shim.shim_path)]
    /\ pc' = "stripped"
    /\ ShimFrame

NextShim ==
    \/ StripArakiShimPath

SpecShim == InitShim /\ [][NextShim]_vars

-----------------------------------------------------------------------------
(* copy_directory and copy_fs_obj (common.rs 117-180) over a directory tree.
   A tree is the set of its directories and the set of its files, each a
   path (a sequence of names). A path of more than PathMax names is refused
   by the operating system. SpecCopy calls copy_directory once on every
   source and target drawn below. *)

PathMax == 5

SrcDir == <<"s">>
DstDir == <<"t">>

Prefixes(p) == {SubSeq(p, 1, n) : n \in 1..Len(p)}
IsUnder(p, d) == Len(p) > Len(d) /\ SubSeq(p, 1, Len(d)) = d
TreeExists(t, p) == p \in t.dirs \cup t.files

\* the names read_dir(d) yields
ReadDir(t, d) == {p[Len(p)] : p \in {q \in t.dirs \cup t.files : Len(q) = Len(d) + 1 /\ IsUnder(q, d)}}

\* the orders in which read_dir may yield a set of names
Orders(S) == {o \in [1..Cardinality(S) -> S] : \A i, j \in DOMAIN o : i # j => o[i] # o[j]}

CopyFaults == {"none", "create_dir_all", "read_dir", "read_item", "remove_dir_all"}

CopyOk(t) == [t |-> t, ok |-> TRUE, err |-> ""]
CopyErr(t, e) == [t |-> t, ok |-> FALSE, err |-> e]

\* fs::create_dir_all: the path and its missing ancestors, as far as the
\* operating system takes the path
create_dir_all(t, p, fault) ==
    IF fault = "create_dir_all" THEN CopyErr(t, "Other")
    ELSE IF \E q \in Prefixes(p) : q \in t.files THEN CopyErr(t, "NotADirectory")
    ELSE LET made == {q \in Prefixes(p) : Len(q) <= PathMax}
             t2 == [t EXCEPT !.dirs = @ \cup made]
         IN IF Len(p) > PathMax THEN CopyErr(t2, "NameTooLong") ELSE CopyOk(t2)

\* fs::remove_dir_all of a directory of the tree
tree_remove_dir_all(t, d) ==
    [dirs |-> {p \in t.dirs : p # d /\ ~IsUnder(p, d)},
     files |-> {p \in t.files : ~IsUnder(p, d)}]

\* fs::copy(from, to): the result is ignored by the caller
fs_copy(t, from, to) ==
    IF from \in t.files /\ to \notin t.dirs /\ Len(to) <= PathMax
       /\ (Len(to) > 1 => SubSeq(to, 1, Len(to) - 1) \in t.dirs)
    THEN [t EXCEPT !.files = @ \cup {to}]
    ELSE t

RECURSIVE copy_directory(_, _, _, _, _)
RECURSIVE copy_fs_obj(_, _, _, _, _)
RECURSIVE copy_items(_, _, _, _, _, _)

\* common.rs 140-160: the loop over the items of read_dir(from), from item i
copy_items(t, from, to, order, i, fault) ==
    IF i > Len(order) THEN CopyOk(t)
    ELSE IF fault = "read_item"
    THEN CopyErr(tree_remove_dir_all(t, to), "Other")
    ELSE LET r == copy_fs_obj(t, from, to \o <<order[i]>>, order, fault)
         IN IF ~r.ok
            THEN IF to \in r.t.dirs
                 THEN IF fault = "remove_dir_all" THEN CopyErr(r.t, "Other")
                      ELSE CopyErr(tree_remove_dir_all(r.t, to), "Other")
                 ELSE CopyErr(r.t, "Other")
            ELSE copy_items(r.t, from, to, order, i + 1, fault)

\* common.rs 169-180
copy_fs_obj(t, from, to, order, fault) ==
    IF from = <<>> THEN CopyErr(t, "Other")
    ELSE LET name == from[Len(from)]
         IN IF from \in t.dirs
            THEN copy_directory(t, from, to \o <<name>>, order, fault)
            ELSE CopyOk(fs_copy(t, from, to \o <<name>>))

\* common.rs 124-161
copy_directory(t, from, to, order, fault) ==
    IF from \notin t.dirs THEN CopyErr(t, "NotADirectory")
    ELSE IF TreeExists(t, to) THEN CopyErr(t, "AlreadyExists")
    ELSE LET c == create_dir_all(t, to, fault)
         IN IF ~c.ok THEN c
            ELSE IF fault = "read_dir" THEN CopyErr(c.t, "Other")
            ELSE copy_items(c.t, from, to, order, 1, fault)

\* the source: absent, a file, or a directory holding some of the files f1
\* and f2 and the directory d1, itself empty or holding f3
SrcTrees ==
    {EmptyTree, [dirs |-> {}, files |-> {SrcDir}]}
    \cup {[dirs |-> {SrcDir} \cup ds, files |-> fls \cup sub] :
            ds \in SUBSET {SrcDir \o <<"d1">>},
            fls \in SUBSET {SrcDir \o <<"f1">>, SrcDir \o <<"f2">>},
            sub \in SUBSET {SrcDir \o <<"d1", "f3">>}}

\* the target: absent, a directory holding a file, or a file
DstTrees ==
    {EmptyTree, [dirs |-> {DstDir}, files |-> {DstDir \o <<"f0">>}],
     [dirs |-> {}, files |-> {DstDir}]}

WellFormed(t) == \A p \in t.dirs \cup t.files : \A q \in Prefixes(p) : q # p => q \in t.dirs

CopyTrees ==
    {t \in {[dirs |-> a.dirs \cup b.dirs, files |-> a.files \cup b.files] :
               a \in SrcTrees, b \in DstTrees} : WellFormed(t)}

InitCopy ==
    /\ cmd = "copy_directory"
    /\ arg = NoName
    /\ target = Cwd
    /\ initName = NoName
    /\ fs = EmptyFs
    /\ fs0 = fs
    /\ pc = "copy"
    /\ remote = NoRemote
    /\ did_clone = FALSE
    /\ env_path = NoDir
    /\ status = Running
    /\ trace = <<>>
    /\ call = NoCall
    /\ token_file = NoTokenFile
    /\ token_file0 = token_file
    /\ interval = 0
    /\ netlog = <<>>
    /\ outcome = ""
    /\ backend = NoBackend /\ cred = NoCred /\ shim = NoShim /\ urls = NoUrls
    /\ \E t \in CopyTrees, f \in CopyFaults :
          tree = [before |-> t, after |-> t, from |-> SrcDir, to |-> DstDir,
                  fault |-> f, done |-> FALSE, ok |-> FALSE, err |-> ""]

CopyFrame == UNCHANGED <<cmd, arg, target, initName, remote, did_clone, env_path, fs, fs0, status,
                         trace, apiVars, authVars, backend, cred, shim, urls>>

\* one call copy_directory(from, to); read_dir yields the entries in any order
CopyDirectory ==
    /\ cmd = "copy_directory" /\ pc = "copy"
    /\ \E order \in Orders(ReadDir(tree.before, tree.from)) :
          LET r == copy_directory(tree.before, tree.from, tree.to, order, tree.fault)
          IN tree' = [tree EXCEPT !.after = r.t, !.done = TRUE, !.ok = r.ok, !.err = r.err]
    /\ pc' = "copied"
    /\ CopyFrame

NextCopy ==
    \/ CopyDirectory

SpecCopy == InitCopy /\ [][NextCopy]_vars

-----------------------------------------------------------------------------
(* Properties *)

HasEv(e) == \E i \in DOMAIN trace : trace[i] = e
HasKind(k) == \E i \in DOMAIN trace : trace[i][1] = k

\* the installer was started and did not succeed
InstallFailed ==
    \E i \in DOMAIN trace : trace[i][1] = "install" /\ trace[i][4] \in {"nonzero", "spawn_err"}

\* a removal of the rollback was refused by the filesystem
CleanupFaulted ==
    \E i \in DOMAIN trace : trace[i][1] \in {"rmdir", "unlink"} /\ trace[i][4] = "Other"

RepoDir == EnvDir(remote.repo)

\* the entries of directory d with the inode each names
View(f, d) == Restrict(f.links, Entries(f, d))

\* a get run that cloned the environment and whose installer then failed
FreshInstallFailure == cmd = "get" /\ pc = "exit" /\ did_clone /\ InstallFailed

\* C1: when Install fails after a fresh clone, every removal of a linked file
\* of the working directory comes before the removal of the cloned catalog
\* entry (rollback in reverse order of completion).
C1_RollbackInReverseOrder ==
    FreshInstallFailure =>
        \A i, j \in DOMAIN trace :
            (trace[i][1] = "rmdir" /\ trace[i][2] = RepoDir
             /\ trace[j][1] = "unlink" /\ trace[j][2] = Cwd) => j < i

\* C2: a get run whose installer fails after this run cloned the environment
\* exits with status 1, and when no removal was refused by the filesystem it
\* leaves no catalog entry for the environment and neither pixi.toml nor
\* pixi.lock in the working directory.
C2_FreshInstallFailureLeavesNothing ==
    FreshInstallFailure =>
        /\ status = <<1>>
        /\ ~CleanupFaulted =>
              /\ RepoDir \notin fs.dirs
              /\ remote.repo \notin get_local_envs(fs)
              /\ Entries(fs, RepoDir) = {}
              /\ ~Exists(fs, specfile(Cwd))
              /\ ~Exists(fs, lockfile(Cwd))

C2_Witness == FreshInstallFailure /\ ~CleanupFaulted /\ RepoDir \notin fs.dirs

\* the directories and tracked files that exist now and did not when the run began
CreatedDirs == fs.dirs \ fs0.dirs
CreatedTracked == {p \in DOMAIN fs.links : p[2] \in Tracked} \ DOMAIN fs0.links

\* C3: whatever stage of a get or clone run fails, when the process exits
\* (and no removal was refused) neither the catalog nor the target directory
\* holds a directory or tracked file that this run created.
C3_FailureLeavesNothingCreated ==
    (cmd \in {"get", "clone"} /\ pc = "exit" /\ status = <<1>> /\ ~CleanupFaulted) =>
        CreatedDirs = {} /\ CreatedTracked = {}

\* the run resolved its argument and is past the Fetch stage
PastFetch ==
    /\ cmd = "get"
    /\ pc \in {"validate", "link", "install", "exit"}
    /\ HasEv(Ev("list", NoDir, "", "ok"))

CatalogDirs(f) == {d \in f.dirs : d[1] = "envs"}

\* C4: in get a clone is performed exactly when the environment name is not
\* an entry of the catalog; past Fetch, did_clone is true exactly when this
\* run completed that clone; and a catalog entry that existed before the run
\* is never removed or changed.
C4_DidCloneTracksClone ==
    /\ PastFetch =>
          /\ HasKind("clone") <=> remote.repo \notin get_local_envs(fs0)
          /\ did_clone <=> HasEv(Ev("clone", RepoDir, "", "ok"))
          /\ (pc # "exit" /\ did_clone) => RepoDir \in fs.dirs \ fs0.dirs
    /\ cmd = "get" =>
          /\ ~PastFetch => ~did_clone /\ ~HasKind("clone")
          /\ \A d \in CatalogDirs(fs0) : d \in fs.dirs /\ View(fs, d) = View(fs0, d)

C4_Witness ==
    /\ cmd = "get" /\ pc = "exit" /\ status = <<1>> /\ ~did_clone
    /\ HasKind("link")
    /\ RepoDir \in fs0.dirs /\ RepoDir \in fs.dirs

ValidateFailed == cmd = "get" /\ pc = "exit" /\ HasEv(Ev("validate", RepoDir, "", "err"))

\* C5: in get, when validation of the catalog directory fails, the removal of
\* that directory is attempted iff did_clone (and the directory is gone unless
\* the removal was refused; without a clone the filesystem is as it was), the
\* run exits with status 1, and nothing was linked or installed.
C5_ValidateFailureRollback ==
    ValidateFailed =>
        /\ status = <<1>>
        /\ ~HasKind("link") /\ ~HasKind("install")
        /\ HasKind("rmdir") <=> did_clone
        /\ (did_clone /\ ~CleanupFaulted) => RepoDir \notin fs.dirs /\ Entries(fs, RepoDir) = {}
        /\ ~did_clone => RepoDir \in fs.dirs /\ fs = fs0

C5_Witness ==
    /\ ValidateFailed /\ did_clone /\ ~CleanupFaulted
    /\ RepoDir \notin fs.dirs

RmdirFaulted == \E i \in DOMAIN trace : trace[i][1] = "rmdir" /\ trace[i][4] = "Other"
UnlinkFaulted == \E i \in DOMAIN trace : trace[i][1] = "unlink" /\ trace[i][4] = "Other"

LinkFailed ==
    /\ cmd = "get" /\ pc = "exit"
    /\ \E i \in DOMAIN trace : trace[i][1] = "link" /\ trace[i][4] # "ok"

\* C6: in get, when hard-linking into the working directory fails, the
\* removal of the catalog entry is attempted iff did_clone (the entry is gone
\* unless that removal was refused, and untouched without a clone), and the
\* working directory holds exactly the entries it held before the run unless
\* the removal of the first link was refused.
C6_LinkFailureFrame ==
    LinkFailed =>
        /\ status = <<1>>
        /\ ~HasKind("install")
        /\ HasKind("rmdir") <=> did_clone
        /\ (did_clone /\ ~RmdirFaulted) => RepoDir \notin fs.dirs /\ Entries(fs, RepoDir) = {}
        /\ ~did_clone => RepoDir \in fs.dirs /\ View(fs, RepoDir) = View(fs0, RepoDir)
        /\ Cwd \in fs.dirs
        /\ ~UnlinkFaulted => View(fs, Cwd) = View(fs0, Cwd)
        /\ \A p \in Entries(fs0, Cwd) : Exists(fs, p) /\ fs.links[p] = fs0.links[p]

C6_Witness ==
    /\ LinkFailed /\ did_clone
    /\ HasEv(Ev("link", Cwd, Toml, "AlreadyExists"))
    /\ HasEv(Ev("unlink", Cwd, Lock, "ok"))
    /\ RepoDir \notin fs.dirs

GetInstallFailed == cmd = "get" /\ pc = "exit" /\ InstallFailed

\* C7: in get, when the installer fails, the removal of the catalog entry is
\* attempted iff did_clone, and from the working directory only pixi.toml and
\* pixi.lock are removed (both, unless a removal was refused): the directory
\* and every other entry of it remain as they were.
C7_InstallFailureFrame ==
    GetInstallFailed =>
        /\ HasKind("rmdir") <=> did_clone
        /\ (did_clone /\ ~RmdirFaulted) => RepoDir \notin fs.dirs
        /\ ~did_clone => RepoDir \in fs.dirs /\ View(fs, RepoDir) = View(fs0, RepoDir)
        /\ Cwd \in fs.dirs
        /\ \A p \in Entries(fs0, Cwd) : Exists(fs, p) /\ fs.links[p] = fs0.links[p]
        /\ \A i \in DOMAIN trace :
              trace[i][1] = "unlink" => trace[i][2] = Cwd /\ trace[i][3] \in Tracked
        /\ ~UnlinkFaulted =>
              /\ HasEv(Ev("unlink", Cwd, Toml, "ok")) /\ HasEv(Ev("unlink", Cwd, Lock, "ok"))
              /\ View(fs, Cwd) = View(fs0, Cwd)

C7_Witness ==
    /\ GetInstallFailed /\ ~did_clone /\ ~UnlinkFaulted
    /\ Entries(fs, Cwd) # {}
    /\ RepoDir \in fs.dirs

\* C8: in get, clone and init's new-environment path alike, a run whose
\* installer could not be spawned or exited non-zero ends in failure (status
\* 1) after the rollback of its command was attempted.
C8_InstallFailuresAlike ==
    (pc = "exit" /\ InstallFailed) =>
        /\ status = <<1>>
        /\ cmd = "init" => HasKind("rmdir")
        /\ cmd \in {"get", "clone"} => HasKind("unlink")

\* C9: a removal refused during rollback does not change the outcome: the
\* run goes on to exit, and exits with status 1.
C9_CleanupFailureKeepsStatus ==
    CleanupFaulted =>
        \/ pc = "exit" /\ status = <<1>>
        \/ cmd = "init" /\ pc = "failed" /\ status = Running /\ ENABLED InitFail

C9_Witness ==
    /\ cmd = "get" /\ pc = "exit" /\ InstallFailed
    /\ RmdirFaulted /\ UnlinkFaulted
    /\ status = <<1>>

\* position of an operation in the order Resolve, Fetch, Validate, Link,
\* Install; the removals of a rollback come last
Rank(e) ==
    CASE e[1] = "exists" -> 0
      [] e[1] \in {"parse", "list"} -> 1
      [] e[1] = "clone" -> 2
      [] e[1] = "validate" -> 3
      [] e[1] = "link" -> 4
      [] e[1] = "install" -> 5
      [] OTHER -> 6

Before(i, e) == \E j \in 1..(i - 1) : trace[j] = e

\* C10: in get the stages run in the order Resolve, Fetch, Validate, Link,
\* Install: no clone without a successful parse, no hard link unless the
\* catalog directory holds both files, no installer unless both links were
\* created.
C10_StagesInOrder ==
    cmd = "get" =>
        /\ \A i, j \in DOMAIN trace : i < j => Rank(trace[i]) <= Rank(trace[j])
        /\ \A i \in DOMAIN trace :
              /\ trace[i][1] = "clone" => Before(i, Ev("parse", NoDir, "", "ok"))
              /\ trace[i][1] = "link" => Before(i, Ev("validate", RepoDir, "", "ok"))
              /\ trace[i][1] = "install" =>
                    /\ Before(i, Ev("link", Cwd, Lock, "ok"))
                    /\ Before(i, Ev("link", Cwd, Toml, "ok"))
        /\ pc = "fetch" => remote.ok /\ Len(remote.repo) > 0
        /\ pc = "link" => files_exist(fs, RepoDir)
        /\ pc = "install" =>
              /\ files_exist(fs, RepoDir) /\ files_exist(fs, Cwd)
              /\ fs.links[lockfile(Cwd)] = fs.links[lockfile(RepoDir)]
              /\ fs.links[specfile(Cwd)] = fs.links[specfile(RepoDir)]

C10_Witness ==
    /\ cmd = "get" /\ pc = "exit" /\ status = <<0>>
    /\ HasKind("clone") /\ HasKind("install")

-----------------------------------------------------------------------------
(* Properties of the LockSpec operations, over SpecApi *)

CallHas(kind, file, res) == \E i \in DOMAIN call.log : call.log[i] = Ev(kind, call.to, file, res)

\* the last call was hardlink_to, its link of pixi.lock succeeded and its link
\* of pixi.toml failed
SecondLinkFailed ==
    /\ call.op = "hardlink_to"
    /\ CallHas("link", Lock, "ok")
    /\ \E i \in DOMAIN call.log :
          call.log[i][1] = "link" /\ call.log[i][3] = Toml /\ call.log[i][4] # "ok"

\* the removal of the first link was refused by the filesystem
FirstLinkKept == CallHas("unlink", Lock, "Other")

\* C11 as stated, for the calls whose removal of the first link is not refused:
\* when the second link fails after the first succeeded, the destination holds
\* neither pixi.lock nor pixi.toml on return
C11_NeitherFileOnReturn ==
    SecondLinkFailed /\ ~FirstLinkKept =>
        ~Exists(fs, lockfile(call.to)) /\ ~Exists(fs, specfile(call.to))

\* C11 (amended): when the second link fails after the first succeeded, the call
\* fails with the error of the second link and, unless the removal of the first
\* link is refused, the destination is as the call found it: without the
\* pixi.lock link the call made, and with a pixi.toml only when it had that
\* pixi.toml before; when the removal is refused the destination has gained the
\* pixi.lock link and nothing else
C11_SecondLinkFailureRestoresTarget ==
    SecondLinkFailed =>
        /\ ~call.ok
        /\ \E i \in DOMAIN call.log : call.log[i] = Ev("link", call.to, Toml, call.err)
        /\ fs.dirs = call.pre.dirs /\ fs.data = call.pre.data
        /\ View(fs, call.dir) = View(call.pre, call.dir)
        /\ ~Exists(call.pre, lockfile(call.to))
        /\ ~FirstLinkKept => fs.links = call.pre.links
        /\ FirstLinkKept =>
              fs.links = (lockfile(call.to) :> call.pre.links[lockfile(call.dir)]) @@ call.pre.links

\* the second link failed because the destination already had a pixi.toml, the
\* first link was removed, and the pixi.toml is still there
C11_Witness ==
    /\ SecondLinkFailed /\ ~FirstLinkKept
    /\ call.err = "AlreadyExists"
    /\ Exists(call.pre, specfile(call.to))
    /\ Exists(fs, specfile(call.to))
    /\ ~Exists(fs, lockfile(call.to))

\* C12: hardlink_to into a directory that already holds pixi.lock or pixi.toml
\* does not return Ok; the error it returns is the error of the link that
\* failed, which is AlreadyExists whenever the source has both files and the
\* filesystem refuses nothing for another reason
C12_ExistingTargetIsAnError ==
    call.op = "hardlink_to"
    /\ (Exists(call.pre, lockfile(call.to)) \/ Exists(call.pre, specfile(call.to))) =>
        /\ ~call.ok
        /\ call.err \in {"AlreadyExists", "NotFound", "Other"}
        /\ \E i \in DOMAIN call.log :
              call.log[i][1] = "link" /\ call.log[i][2] = call.to /\ call.log[i][4] = call.err
        /\ Exists(call.pre, lockfile(call.dir)) /\ Exists(call.pre, specfile(call.dir))
           /\ call.err # "Other" => call.err = "AlreadyExists"

\* the destination already had a pixi.lock and the call returned AlreadyExists
\* from its first link
C12_Witness ==
    /\ call.op = "hardlink_to"
    /\ Exists(call.pre, lockfile(call.to))
    /\ ~call.ok /\ call.err = "AlreadyExists"
    /\ call.log = <<Ev("link", call.to, Lock, "AlreadyExists")>>

\* C13: from_directory(path) returns a LockSpec exactly when path has both a
\* pixi.toml and a pixi.lock entry, an error otherwise, and the filesystem is
\* after the call what it was before
C13_FromDirectoryIffBothFiles ==
    call.op = "from_directory" =>
        /\ call.ok <=> (<<call.dir, Toml>> \in DOMAIN call.pre.links
                        /\ <<call.dir, Lock>> \in DOMAIN call.pre.links)
        /\ fs = call.pre

\* from_directory returned a LockSpec for one directory and then an error for a
\* directory that has only one of the two files
C13_Witness ==
    /\ call.op = "from_directory" /\ ~call.ok
    /\ Cardinality(FileNames(fs, call.dir) \cap Tracked) = 1
    /\ call.prev.op = "from_directory" /\ call.prev.ok

\* the last two calls were ensure_araki_metadata on the same directory and the
\* first of them returned Ok
StampedTwice ==
    /\ call.op = "ensure_araki_metadata" /\ call.prev.op = "ensure_araki_metadata"
    /\ call.prev.dir = call.dir
    /\ call.prev.ok

\* C14: a call of ensure_araki_metadata that follows a successful one, with the
\* same or another name, leaves the filesystem, and so every byte of pixi.toml,
\* as the first call left it; the file has an [araki] table whose
\* lockspec_name is the name of the first call whenever that call wrote it
C14_EnsureMetadataIdempotent ==
    StampedTwice =>
        /\ fs = call.pre
        /\ call.log \in {<<Ev("stamp", call.dir, Toml, "kept")>>, <<Ev("stamp", call.dir, Toml, "read")>>}
        /\ call.ok <=> call.log = <<Ev("stamp", call.dir, Toml, "kept")>>
        /\ Exists(fs, specfile(call.dir))
        /\ fs.data[fs.links[specfile(call.dir)]].araki # NoName
        /\ call.prev.log = <<Ev("stamp", call.dir, Toml, "ok")>> =>
              fs.data[fs.links[specfile(call.dir)]].araki = call.prev.name

\* the first call stamped a file that had no [araki] table, the second call was
\* given another name and returned Ok, and the file carries the first name
C14_Witness ==
    /\ StampedTwice
    /\ call.prev.log = <<Ev("stamp", call.dir, Toml, "ok")>>
    /\ call.ok /\ call.name # call.prev.name
    /\ fs.data[fs.links[specfile(call.dir)]].araki = call.prev.name
    /\ fs.data[fs.links[specfile(call.dir)]].fmt = "serialized"

\* the last call was one of the two removals
Removal == call.op \in {"remove_files", "remove_lockspec_and_parent_dir"}

\* the filesystem refused an operation of the last call for a reason other than
\* a name that is absent or already there
CallRefused == \E i \in DOMAIN call.log : call.log[i][4] = "Other"

\* what the last call had to delete was absent when it was made
AlreadyAbsent ==
    IF call.op = "remove_files"
    THEN ~Exists(call.pre, specfile(call.dir)) /\ ~Exists(call.pre, lockfile(call.dir))
    ELSE ~IsDir(call.pre, call.dir)

\* C15: remove_files and remove_lockspec_and_parent_dir return an error exactly
\* when the filesystem refuses a removal for a reason other than absence; on
\* something already absent they return Ok and change nothing; so a call that
\* follows a successful call of the same removal on the same directory returns
\* Ok as well, finding nothing to delete
C15_AbsentIsSuccess ==
    Removal =>
        /\ call.ok <=> ~CallRefused
        /\ AlreadyAbsent /\ ~CallRefused =>
              /\ call.ok /\ fs = call.pre
              /\ \A i \in DOMAIN call.log : call.log[i][4] = "NotFound"
        /\ call.prev.op = call.op /\ call.prev.dir = call.dir /\ call.prev.ok /\ ~CallRefused =>
              call.ok /\ AlreadyAbsent

\* remove_files deleted both files and, called again, found neither and
\* returned Ok
C15_Witness ==
    /\ call.op = "remove_files" /\ call.prev.op = "remove_files" /\ call.prev.dir = call.dir
    /\ call.prev.log = <<Ev("unlink", call.dir, Toml, "ok"), Ev("unlink", call.dir, Lock, "ok")>>
    /\ call.prev.ok /\ call.ok
    /\ call.log = <<Ev("unlink", call.dir, Toml, "NotFound"), Ev("unlink", call.dir, Lock, "NotFound")>>

\* C16: hardlink_to from a source with both files to an empty directory
\* succeeds unless the filesystem refuses a link; after a successful
\* hardlink_to each of pixi.toml and pixi.lock of the target names the inode the
\* file of that name in the source named before the call and still names, no
\* file content has changed and no inode was made; and from_directory on the
\* target, called next, returns a LockSpec
C16_HardlinkRoundTrip ==
    /\ call.op = "hardlink_to"
       /\ Exists(call.pre, lockfile(call.dir)) /\ Exists(call.pre, specfile(call.dir))
       /\ IsDir(call.pre, call.to) /\ Entries(call.pre, call.to) = {} =>
          call.ok <=> ~CallRefused
    /\ call.op = "hardlink_to" /\ call.ok =>
          /\ \A n \in Tracked :
                /\ Exists(fs, <<call.to, n>>)
                /\ fs.links[<<call.to, n>>] = call.pre.links[<<call.dir, n>>]
                /\ fs.links[<<call.dir, n>>] = call.pre.links[<<call.dir, n>>]
          /\ View(fs, call.dir) = View(call.pre, call.dir)
          /\ fs.data = call.pre.data
    /\ call.op = "from_directory" /\ call.prev.op = "hardlink_to" /\ call.prev.ok
       /\ call.dir = call.prev.to =>
          /\ call.ok
          /\ \A n \in Tracked : fs.links[<<call.dir, n>>] = fs.links[<<call.prev.dir, n>>]

\* hardlink_to into an empty directory succeeded and from_directory on that
\* directory then returned a LockSpec
C16_Witness ==
    /\ call.op = "from_directory" /\ call.prev.op = "hardlink_to" /\ call.prev.ok
    /\ call.dir = call.prev.to
    /\ call.ok
    /\ Entries(fs0, call.dir) = {} /\ IsDir(fs0, call.dir)
    /\ FileNames(fs, call.dir) = Tracked

-----------------------------------------------------------------------------
(* Properties of the device flow, over SpecLogin *)

\* the interval of the device-code response
Interval0 == netlog[1].secs

IsRequest(i) == netlog[i].op = "request_token"

\* the last token request and what came back
LastRequest == CHOOSE i \in DOMAIN netlog : IsRequest(i) /\ \A j \in DOMAIN netlog : IsRequest(j) => j <= i

Answered(e) == \E i \in DOMAIN netlog : IsRequest(i) /\ netlog[i].val = e

\* C17: in every run of the polling loop, each authorization_pending response
\* is followed by exactly one sleep of the interval and each slow_down
\* response by exactly one sleep of the interval plus five seconds, before the
\* next request if there is one; no sleep and no request follows any other
\* response; and when login returns Ok the token file is the access_token of
\* the last response as one line
C17_SleepOncePerPendingResponse ==
    /\ \A i \in DOMAIN netlog : IsRequest(i) =>
          IF netlog[i].val \in {"authorization_pending", "slow_down"}
          THEN /\ i + 1 \in DOMAIN netlog
               /\ netlog[i + 1].op = "sleep"
               /\ netlog[i + 1].secs = IF netlog[i].val = "slow_down"
                                       THEN Interval0 + SlowDownExtra ELSE Interval0
               /\ i + 2 \in DOMAIN netlog => IsRequest(i + 2)
          ELSE \A j \in DOMAIN netlog : j > i => netlog[j].op \notin {"sleep", "request_token"}
    /\ outcome = "Ok" =>
          /\ netlog[LastRequest].val = Absent
          /\ token_file.present
          /\ token_file.text = netlog[LastRequest].tok \o <<"\n">>
          /\ trim(token_file.text) = netlog[LastRequest].tok

\* authorization_pending, slow_down, then a token: two sleeps, the token written,
\* exit status 0
C17_Witness ==
    /\ pc = "exit" /\ status = <<0>> /\ outcome = "Ok"
    /\ Len(netlog) >= 8
    /\ netlog[3].val = "authorization_pending" /\ netlog[4] = Net("sleep", "", Interval0, <<>>)
    /\ netlog[5].val = "slow_down"
    /\ netlog[6] = Net("sleep", "", Interval0 + SlowDownExtra, <<>>)
    /\ netlog[7].val = Absent /\ netlog[8].op = "write"
    /\ trim(token_file.text) = netlog[7].tok

\* C18: every sleep after slow_down lasts the interval of the device-code
\* response plus five seconds and every sleep after authorization_pending lasts
\* that interval, whatever was answered before; the interval polled with stays
\* the one of the device-code response
C18_BackoffDoesNotAccumulate ==
    /\ \A i \in DOMAIN netlog : netlog[i].op = "sleep" =>
          /\ netlog[i - 1].val = "slow_down" => netlog[i].secs = netlog[1].secs + SlowDownExtra
          /\ netlog[i - 1].val = "authorization_pending" => netlog[i].secs = netlog[1].secs
    /\ pc = "poll" => interval = netlog[1].secs

\* slow_down twice, then authorization_pending: the sleeps are interval + 5,
\* interval + 5, interval
C18_Witness ==
    /\ Len(netlog) >= 8
    /\ netlog[3].val = "slow_down" /\ netlog[5].val = "slow_down"
    /\ netlog[7].val = "authorization_pending"
    /\ netlog[4].secs = interval + SlowDownExtra
    /\ netlog[6].secs = interval + SlowDownExtra
    /\ netlog[8].op = "sleep" /\ netlog[8].secs = interval

\* the error values that end the polling loop
Terminal(e) == e \in ErrorValues \ {"authorization_pending", "slow_down"}

\* C19: a response whose error is neither authorization_pending nor slow_down
\* is the last thing the login does on the network: nothing is requested or
\* slept after it and the token file is untouched; login returns the
\* restart-login error for expired_token, the cancelled-by-user error for
\* access_denied and otherwise an error that carries the error value, three
\* different errors; and the process exits with status 1
C19_ErrorResponseEndsLogin ==
    \A i \in DOMAIN netlog : IsRequest(i) /\ Terminal(netlog[i].val) =>
        /\ i = Len(netlog)
        /\ pc \in {"returned", "exit"}
        /\ pc = "exit" => status = <<1>>
        /\ token_file = token_file0
        /\ netlog[i].val = "expired_token" => outcome = ExpiredMsg
        /\ netlog[i].val = "access_denied" => outcome = DeniedMsg
        /\ netlog[i].val \notin {"expired_token", "access_denied"} =>
              /\ outcome = FailedPrefix \o JsonDisplay(netlog[i].val)
              /\ outcome \notin {ExpiredMsg, DeniedMsg}
        /\ ExpiredMsg # DeniedMsg

\* after an authorization_pending and its sleep, access_denied ended the login
\* with exit status 1
C19_Witness ==
    /\ pc = "exit" /\ status = <<1>> /\ outcome = DeniedMsg
    /\ Answered("authorization_pending")
    /\ netlog[Len(netlog)].op = "request_token" /\ netlog[Len(netlog)].val = "access_denied"

\* the last response had no error field and a string access_token
TokenReceived == netlog # <<>> /\ netlog[Len(netlog)].op = "write"

\* C20: after a response without error field and with an access token login
\* returns Ok, unless the token file cannot be opened or written, and the
\* process exits with status 0; the token file then is that token followed by a
\* line feed and holds nothing of what it held before
C20_TokenReplacesFile ==
    TokenReceived =>
        /\ outcome = "Ok" <=> netlog[Len(netlog)].val = "none"
        /\ outcome = "Ok" =>
              /\ token_file = TokenFile(netlog[Len(netlog)].tok \o <<"\n">>)
              /\ trim(token_file.text) = netlog[Len(netlog)].tok
              /\ netlog[Len(netlog)].tok \in Tokens
              /\ pc = "exit" => status = <<0>>
        /\ outcome # "Ok" /\ pc = "exit" => status = <<1>>

\* a one-character token replaced a longer one
C20_Witness ==
    /\ TokenReceived /\ outcome = "Ok" /\ pc = "exit" /\ status = <<0>>
    /\ token_file0.present /\ Len(token_file0.text) > Len(token_file.text)
    /\ token_file.text = <<"t", "\n">>

\* C21: a token request that fails on the network is the last thing the run
\* does: the process has exited with status 1, without a sleep, another
\* request or a write of the token file; and every token request that is
\* followed by another one was answered authorization_pending or slow_down
C21_NetworkFailureIsFatal ==
    /\ \A i \in DOMAIN netlog : IsRequest(i) /\ netlog[i].val = "transport" =>
          /\ i = Len(netlog)
          /\ pc = "exit" /\ status = <<1>>
          /\ outcome = ""
          /\ token_file = token_file0
    /\ \A i \in DOMAIN netlog : \A j \in DOMAIN netlog :
          IsRequest(i) /\ IsRequest(j) /\ i < j =>
              netlog[i].val \in {"authorization_pending", "slow_down"}
    /\ \A i \in DOMAIN netlog :
          IsRequest(i) /\ netlog[i].val \notin {"authorization_pending", "slow_down"} =>
              pc # "poll"

\* the second token request failed on the network, after an
\* authorization_pending and its sleep
C21_Witness ==
    /\ pc = "exit" /\ status = <<1>>
    /\ Len(netlog) = 5
    /\ netlog[3].val = "authorization_pending" /\ netlog[4].op = "sleep"
    /\ IsRequest(5) /\ netlog[5].val = "transport"

-----------------------------------------------------------------------------
(* Properties of the backend, over SpecBackend *)

\* C22: on a backend built without a cached token, every authenticated
\* operation called returned the please-authenticate error and no HTTP request
\* has been sent
C22_NoTokenNoRequest ==
    backend.client = "none" /\ backend.n > 0 =>
        /\ backend.sent = 0
        /\ backend.resp = NoResponse
        /\ backend.op # "login" => backend.op \in BackendOps /\ outcome = AuthMsg

\* with no token file, is_existing_lockspec and then create_repository were
\* refused without a request
C22_Witness ==
    /\ ~token_file0.present
    /\ backend.client = "none" /\ backend.n = MaxOps
    /\ backend.op = "create_repository"
    /\ outcome = AuthMsg /\ backend.sent = 0

\* C23: is_existing_lockspec returns Ok(true) exactly when the response has a
\* 2xx status and a body with a name field, and Ok(false) when the remote
\* answers not found
C23_ExistsIffSuccessWithName ==
    backend.op = "is_existing_lockspec" /\ backend.sent > 0 /\ ~backend.resp.transport =>
        /\ outcome = "Ok(true)" <=> (is_success(backend.resp.status) /\ has_name(backend.resp.body))
        /\ backend.resp.status = 404 => outcome = "Ok(false)"

-----------------------------------------------------------------------------
(* Properties of git_clone, over SpecClone *)

\* C24: in one clone Cred::ssh_key_from_agent is called at most once, whatever
\* the credential requests are; every request after the one that called it is
\* answered with an error (the authentication error when the URL has a
\* username) and does not call it; and a request that does not allow ssh keys
\* is answered with an error and does not call it
C24_AgentTriedAtMostOnce ==
    /\ cred.agent <= 1
    /\ cred.agent = Cardinality({i \in DOMAIN cred.log : cred.log[i].agent})
    /\ cred.tried_agent <=> cred.agent = 1
    /\ \A i \in DOMAIN cred.log : \A j \in DOMAIN cred.log :
          cred.log[i].agent /\ i < j =>
              /\ ~cred.log[j].agent
              /\ cred.log[j].result \in {AgentTriedMsg, NoUsernameMsg}
              /\ cred.log[j].user => cred.log[j].result = AgentTriedMsg
    /\ \A i \in DOMAIN cred.log :
          ~cred.log[i].ssh =>
              ~cred.log[i].agent /\ cred.log[i].result \in {AgentTriedMsg, NoUsernameMsg, SshOnlyMsg}

\* the agent gave a credential, the server asked again twice, with ssh keys
\* allowed: both requests were answered with the authentication error and the
\* clone failed
C24_Witness ==
    /\ pc = "returned" /\ outcome = "Failed to clone"
    /\ Len(cred.log) = MaxCallbacks
    /\ cred.log[1].result = "Cred"
    /\ \A j \in DOMAIN cred.log : j > 1 =>
          cred.log[j].user /\ cred.log[j].ssh /\ cred.log[j].result = AgentTriedMsg
    /\ cred.agent = 1

-----------------------------------------------------------------------------
(* Properties of parse_repo_arg and RemoteRepo, over SpecParse *)

\* the four accepted shapes, each with the parts written in it: name,
\* org/name, https://github.com/org/name and git+https://github.com/org/name
ShapeOrgs == {<<"o">>, <<"a", "-", "b">>}
ShapeNames == {<<"e", "1">>, <<"e", ".", "1", "-", "x">>}
ShapeSchemes == {LitHttps, LitGit \o LitHttps}

Shapes ==
    {[text |-> n, org |-> NoName, repo |-> n, domain |-> NoName, protocol |-> NoName] :
        n \in ShapeNames}
    \cup {[text |-> o \o <<"/">> \o n, org |-> o, repo |-> n, domain |-> NoName,
           protocol |-> NoName] : o \in ShapeOrgs, n \in ShapeNames}
    \cup {[text |-> p \o LitDomain \o <<"/">> \o o \o <<"/">> \o n, org |-> o, repo |-> n,
           domain |-> LitDomain, protocol |-> p] :
             p \in ShapeSchemes, o \in ShapeOrgs, n \in ShapeNames}

IsShape(s) == \E r \in Shapes : r.text = s
ShapeOf(s) == CHOOSE r \in Shapes : r.text = s

Parsed == pc \in {"parsed", "rejected", "rendered"}

\* C25: parse_repo_arg accepts an argument exactly when it has one of the four
\* shapes; every other string is rejected
C25_OnlyFourShapesAccepted ==
    cmd \in {"get", "clone"} /\ Parsed => (remote.ok <=> IsShape(arg))

\* C26: for an argument of one of the four shapes parse_repo_arg yields the
\* organisation, name, domain and protocol written in it, a part that is not
\* written being None
C26_ParseRecoversParts ==
    cmd \in {"get", "clone"} /\ Parsed /\ IsShape(arg) =>
        /\ remote.ok
        /\ remote.org = ShapeOf(arg).org
        /\ remote.repo = ShapeOf(arg).repo
        /\ remote.domain = ShapeOf(arg).domain
        /\ remote.protocol = ShapeOf(arg).protocol

OrDefault(x, dflt) == IF x = NoName THEN dflt ELSE x

\* C27: for an argument of one of the four shapes the URLs rendered from the
\* parse are {scheme}{host}/{org-or-default}/{name} and
\* git@{host}:{org-or-default}/{name}.git, scheme and host being those of the
\* argument or https:// and github.com
C27_RenderedUrls ==
    cmd \in {"get", "clone"} /\ pc = "rendered" /\ IsShape(arg) =>
        LET r == ShapeOf(arg)
            org == OrDefault(r.org, DefaultOrg)
            host == OrDefault(r.domain, LitDomain)
            scheme == OrDefault(r.protocol, LitHttps)
        IN /\ urls.web = scheme \o host \o <<"/">> \o org \o <<"/">> \o r.repo
           /\ urls.ssh = LitGitAt \o host \o <<":">> \o org \o <<"/">> \o r.repo \o LitDotGit

-----------------------------------------------------------------------------
(* Properties of strip_araki_shim_path, over SpecShim *)

\* the entries of a colon-separated PATH, read off the separator positions
PathEntries(s) ==
    LET seps == {i \in 1..Len(s) : s[i] = ":"}
        n == Cardinality(seps)
        cut(k) == IF k = 0 THEN 0
                  ELSE IF k = n + 1 THEN Len(s) + 1
                  ELSE CHOOSE i \in seps : Cardinality({j \in seps : j < i}) = k - 1
    IN [k \in 1..(n + 1) |-> SubSeq(s, cut(k - 1) + 1, cut(k) - 1)]

\* the entries of the PATH given that are not the shim directory, in order
Kept == SelectSeq(PathEntries(shim.path), LAMBDA e : e # shim.shim_path)

\* C28 as stated: the entries of the result are exactly the entries of path
\* that are not equal to shim, in their original order
C28_EntriesAreThoseNotEqualToShim ==
    shim.done => PathEntries(shim.out) = Kept

\* C28: when some entry of path differs from shim, the entries of the result
\* are exactly the entries of path not equal to shim, in their original order;
\* when every entry equals shim, the result is the empty string
C28_StripKeepsOthersInOrder ==
    shim.done =>
        IF Kept = <<>> THEN shim.out = <<>> ELSE PathEntries(shim.out) = Kept

\* the shim directory occurred twice among other entries and was stripped
C28_Witness ==
    /\ shim.done
    /\ Len(PathEntries(shim.path)) = Len(Kept) + 2
    /\ Len(Kept) >= 1
    /\ shim.out # shim.path

-----------------------------------------------------------------------------
(* Properties of copy_directory, over SpecCopy *)

\* where the copy of a path under from belongs under to
CopyOf(p) == tree.to \o SubSeq(p, Len(tree.from) + 1, Len(p))

SourceReadable == tree.from \in tree.before.dirs
TargetWasAbsent == ~TreeExists(tree.before, tree.to)

\* C29: a call on a source directory and an absent target that meets no
\* filesystem error succeeds; on success to holds a copy of every entry of
\* from; after a failure during copying to does not exist; an existing to is
\* refused with AlreadyExists and the tree is left as it was
C29_CopiesOrCleansUp ==
    tree.done =>
        /\ SourceReadable /\ TargetWasAbsent /\ tree.fault = "none" => tree.ok
        /\ tree.ok =>
              /\ \A p \in tree.before.dirs : IsUnder(p, tree.from) => CopyOf(p) \in tree.after.dirs
              /\ \A p \in tree.before.files : IsUnder(p, tree.from) => CopyOf(p) \in tree.after.files
        /\ ~tree.ok /\ TargetWasAbsent /\ tree.fault \in {"none", "read_item"} =>
              ~TreeExists(tree.after, tree.to)
        /\ SourceReadable /\ ~TargetWasAbsent =>
              ~tree.ok /\ tree.err = "AlreadyExists" /\ tree.after = tree.before

-----------------------------------------------------------------------------
(* Properties of the pre-check of get, over Spec *)

\* the working directory held pixi.toml or pixi.lock when the run started
TrackedFilePresent == Exists(fs0, specfile(Cwd)) \/ Exists(fs0, lockfile(Cwd))

\* C30: a get run started in a working directory that holds pixi.toml or
\* pixi.lock goes from its pre-check straight to exit status 1: it parses,
\* lists, clones and links nothing and never reaches the Fetch stage
C30_GetAbortsOnExistingLockspec ==
    (cmd = "get" /\ TrackedFilePresent) =>
        /\ pc \in {"start", "exit"}
        /\ (pc = "exit" => status = <<1>>)
        /\ ~HasKind("parse") /\ ~HasKind("clone") /\ ~HasKind("link")

-----------------------------------------------------------------------------
(* Properties of the token cache and of the order of the device flow, over
   SpecLogin *)

\* the login returned an error or the process exited with status 1
LoginFailed ==
    /\ cmd = "login"
    /\ \/ pc = "returned" /\ outcome # "Ok"
       \/ pc = "exit" /\ status = <<1>>

\* C31: in every login that ends in failure the token cache file has the
\* content it had before the login started
C31_FailedLoginKeepsTokenFile ==
    LoginFailed => token_file = token_file0

\* the answers after which the claim has the loop go on
PendingValues == {"authorization_pending", "slow_down"}

\* one iteration of the loop: a token request was sent in this step
PollStep == pc = "poll" /\ netlog' # netlog

\* the answer to the request sent in this step
StepAnswer == netlog'[Len(netlog) + 1]

\* the loop goes on after a pending answer, with one request and one sleep,
\* and ends on the first answer of any other kind
PollStepsAsClaimed ==
    PollStep =>
        /\ StepAnswer.op = "request_token"
        /\ IF StepAnswer.val \in PendingValues
           THEN /\ pc' = "poll"
                /\ Len(netlog') = Len(netlog) + 2
                /\ netlog'[Len(netlog) + 2].op = "sleep"
           ELSE pc' \in {"returned", "exit"}

\* C32: while the server answers authorization_pending or slow_down the loop
\* stays in polling, each round one token request and one sleep, whatever
\* the number of rounds so far; it ends on the first other answer or failed
\* request; and when such an answer comes in the end, the login terminates
C32_PollsUntilAnswered ==
    /\ [][PollStepsAsClaimed]_vars
    /\ (cmd = "login" /\ pc = "poll") ~> (pc = "exit")

\* the login ended after MaxPolls pending answers and one other answer
C32_Witness ==
    /\ cmd = "login" /\ pc = "exit"
    /\ Polls = MaxPolls + 1
    /\ \A i \in DOMAIN netlog :
          (netlog[i].op = "request_token" /\ i < Len(netlog) - 1) => netlog[i].val \in PendingValues
    /\ \E i \in DOMAIN netlog : netlog[i].op = "sleep"

HasNet(op) == \E i \in DOMAIN netlog : netlog[i].op = op

\* the device-code request failed or was answered with a non-success status
DeviceCodeFailed ==
    \E i \in DOMAIN netlog : netlog[i].op = "device_code" /\ netlog[i].val # "ok"

\* C33: the verification URL and user code are shown only after the
\* device-code request succeeded, and a token request is sent only after they
\* were shown; when the device-code request fails, login returns an error and
\* nothing is shown, no token request is sent and there is no sleep
C33_CodeThenShowThenPoll ==
    cmd = "login" =>
        /\ \A i \in DOMAIN netlog : netlog[i].op = "show" =>
              \E j \in 1..(i - 1) : netlog[j].op = "device_code" /\ netlog[j].val = "ok"
        /\ \A i \in DOMAIN netlog : netlog[i].op = "request_token" =>
              \E j \in 1..(i - 1) : netlog[j].op = "show"
        /\ DeviceCodeFailed =>
              /\ ~HasNet("show") /\ ~HasNet("request_token") /\ ~HasNet("sleep")
              /\ pc \in {"returned", "exit"} /\ outcome # "Ok"
              /\ (pc = "exit" => status = <<1>>)

\* the device-code request was answered with a non-success status and the
\* login has ended
C33_Witness ==
    /\ cmd = "login" /\ pc = "exit"
    /\ \E i \in DOMAIN netlog : netlog[i].op = "device_code" /\ netlog[i].val = "status"

-----------------------------------------------------------------------------
(* Properties of a backend instance across login, over SpecBackend *)

\* C34: a backend constructed when there was no token file has no client for
\* as long as it lives: whatever login has written since, it sends no request
\* and every get, post and API operation on it returns the
\* please-authenticate error
C34_AuthStateFixedAtConstruction ==
    (cmd = "backend" /\ pc = "ready" /\ ~token_file0.present) =>
        /\ backend.client = "none"
        /\ backend.sent = 0
        /\ backend.op \in {"get", "post", "is_existing_lockspec", "create_repository"} =>
              outcome = AuthMsg

\* a login on an instance built without a token wrote the token file, and a
\* get or post on the same instance then returned the error
C34_Witness ==
    /\ cmd = "backend" /\ pc = "ready"
    /\ ~token_file0.present /\ token_file.present
    /\ backend.logins = 1
    /\ backend.op \in {"get", "post"}
    /\ outcome = AuthMsg

-----------------------------------------------------------------------------
(* Properties of what hardlink_to leaves alone, over SpecApi *)

\* the path p names the same file, with the same content, as before the call
SameFile(p) ==
    /\ Exists(fs, p)
    /\ fs.links[p] = call.pre.links[p]
    /\ fs.data[fs.links[p]] = call.pre.data[call.pre.links[p]]

\* C35: after hardlink_to, every file that existed before the call, in the
\* destination or elsewhere, is still there under its name, the same file with
\* the same content, whether the call succeeded or either link failed; and a
\* removal the call made is that of the pixi.lock link it had just created
C35_ExistingFilesUntouched ==
    call.op = "hardlink_to" =>
        /\ \A p \in DOMAIN call.pre.links : SameFile(p)
        /\ \A i \in DOMAIN call.log : call.log[i][1] = "unlink" =>
              /\ call.log[i][2] = call.to /\ call.log[i][3] = Lock
              /\ CallHas("link", Lock, "ok")
              /\ ~Exists(call.pre, lockfile(call.to))

\* the destination held a pixi.toml and another file, the link of pixi.toml
\* failed and the call removed its pixi.lock link
C35_Witness ==
    /\ call.op = "hardlink_to" /\ ~call.ok
    /\ CallHas("unlink", Lock, "ok")
    /\ Exists(call.pre, specfile(call.to))
    /\ FileNames(call.pre, call.to) \ Tracked # {}
    /\ ~Exists(fs, lockfile(call.to))

-----------------------------------------------------------------------------
(* Properties of init for a new environment, over Spec *)

\* the catalog directory of the new environment
NewEnvDir == EnvDir(env_name)

\* init took the branch of make_new_araki_env and has exited
NewEnvRunEnded == cmd = "init" /\ from_directory(fs0, target) /\ pc = "exit"

\* this run created the catalog directory
CreatedEnvDir == HasEv(Ev("mkdir", NewEnvDir, "", "ok"))

\* a step after the creation failed: the source is no lockspec, a link was
\* refused, the metadata could not be stamped, or the installer did not start
FailedAfterCreation ==
    \/ HasEv(Ev("validate", target, "", "err"))
    \/ \E i \in DOMAIN trace : trace[i][1] = "link" /\ trace[i][4] # "ok"
    \/ \E i \in DOMAIN trace : trace[i][1] = "stamp" /\ trace[i][4] \in {"read", "parse", "open", "write"}
    \/ HasEv(Ev("install", target, "", "spawn_err"))

\* the catalog directory d and what it holds are as when the run started
EntryAsBefore(d) ==
    /\ IsDir(fs, d) <=> IsDir(fs0, d)
    /\ View(fs, d) = View(fs0, d)
    /\ \A p \in Entries(fs0, d) : fs.data[fs.links[p]] = fs0.data[fs0.links[p]]

\* C36: an init for a new environment that fails after it created the
\* catalog directory removes that directory (it is gone unless the removal is
\* refused) and exits with status 1; one that fails before, the name being
\* taken or the directory not being created, exits with status 1 and removes
\* nothing; and a catalog entry of that name that was there at the start is
\* there, unchanged, at the end
C36_InitRollbackOnlyOwnDirectory ==
    NewEnvRunEnded =>
        /\ CreatedEnvDir /\ FailedAfterCreation =>
              /\ status = <<1>>
              /\ \E i \in DOMAIN trace : trace[i][1] = "rmdir" /\ trace[i][2] = NewEnvDir
              /\ ~RmdirFaulted => ~IsDir(fs, NewEnvDir)
        /\ ~CreatedEnvDir =>
              /\ status = <<1>>
              /\ ~HasKind("rmdir") /\ ~HasKind("unlink")
              /\ fs = fs0
        /\ IsDir(fs0, NewEnvDir) => ~CreatedEnvDir /\ EntryAsBefore(NewEnvDir)

\* the link into the new catalog directory was refused, and the directory
\* this run created has been removed
C36_Witness ==
    /\ NewEnvRunEnded /\ CreatedEnvDir
    /\ \E i \in DOMAIN trace : trace[i][1] = "link" /\ trace[i][2] = NewEnvDir /\ trace[i][4] # "ok"
    /\ HasEv(Ev("rmdir", NewEnvDir, "", "ok"))
    /\ ~IsDir(fs, NewEnvDir)

=============================================================================
